---- MODULE Spec2Model ----
(***************************************************************************)
(* Model of tag_dupes.py: the Audiobookshelf duplicate tagger and pruner.  *)
(* Text (titles, paths, format tokens) is a sequence of one-character      *)
(* strings, so that the string operations of the source are computed and   *)
(* not assumed.  The run of main() is a state machine over the remote      *)
(* catalog, the local filesystem and the local variables of main().        *)
(***************************************************************************)
EXTENDS Integers, Sequences, FiniteSets, TLC

\* ------------------------------------------------------------------ bounds
MaxItems == 3          \* items held by the catalog
MaxFaults == 1         \* environment failures injected in one behaviour

\* --------------------------------------------------------- generic helpers
RECURSIVE FlattenSeq(_)
FlattenSeq(ss) == IF ss = <<>> THEN <<>> ELSE Head(ss) \o FlattenSeq(Tail(ss))

MapSeq(f(_), s) == [i \in 1..Len(s) |-> f(s[i])]

\* the element of a one-element set; v \in {e} evaluates e once for all uses of v
One(S) == CHOOSE x \in S : TRUE

RangeOf(s) == {s[i] : i \in 1..Len(s)}

InSeq(x, s) == \E i \in 1..Len(s) : s[i] = x

StartsWith(p, s) == Len(s) <= Len(p) /\ SubSeq(p, 1, Len(s)) = s

\* index of the first occurrence of x in s, 0 when absent
FirstIndex(x, s) ==
  IF InSeq(x, s) THEN CHOOSE i \in 1..Len(s) : s[i] = x /\ \A j \in 1..(i-1) : s[j] # x
  ELSE 0

\* index of the last occurrence of x in s, 0 when absent
LastIndex(x, s) ==
  IF InSeq(x, s) THEN CHOOSE i \in 1..Len(s) : s[i] = x /\ \A j \in (i+1)..Len(s) : s[j] # x
  ELSE 0

\* sub is a contiguous part of s  (Python: sub in s)
Contains(s, sub) ==
  \E i \in 0..(Len(s) - Len(sub)) : SubSeq(s, i + 1, i + Len(sub)) = sub

\* ------------------------------------------------------------- characters
\* The alphabet, in code-point order.  "NBSP" is U+00A0, "ACUTE" is U+00B4
\* (NFKD: space + combining acute), "E_ACUTE" is U+00E9, "FRAKTUR_H" is
\* U+210C (NFKD: "H", and str.lower() leaves it alone).
Alphabet ==
  << "TAB", " ", ".", "/", "2", "3", "4", "A", "B", "H", "M", "P", "\\",
     "a", "b", "c", "d", "e", "f", "h", "k", "l", "m", "n", "o", "p", "t",
     "u", "w", "x", "|", "NBSP", "ACUTE", "E_ACUTE", "FRAKTUR_H" >>

Ord(c) == FirstIndex(c, Alphabet)

IsSpace(c) == c \in {"TAB", " ", "NBSP"}

LowerChar(c) ==
  CASE c = "A" -> "a" [] c = "B" -> "b" [] c = "H" -> "h"
    [] c = "M" -> "m" [] c = "P" -> "p" [] OTHER -> c

Lower(s) == MapSeq(LowerChar, s)

\* unicodedata.normalize("NFKD", c).encode("ascii","ignore") of one character
FoldChar(c) ==
  CASE c = "NBSP" -> <<" ">>
    [] c = "ACUTE" -> <<" ">>
    [] c = "E_ACUTE" -> <<"e">>
    [] c = "FRAKTUR_H" -> <<"H">>
    [] OTHER -> <<c>>

\* lexicographic order of two texts (Python's str comparison)
RECURSIVE TextLess(_,_)
TextLess(a, b) ==
  IF b = <<>> THEN FALSE
  ELSE IF a = <<>> THEN TRUE
  ELSE IF Head(a) = Head(b) THEN TextLess(Tail(a), Tail(b))
  ELSE Ord(Head(a)) < Ord(Head(b))

\* ------------------------------------------------------------- Normalizer
\* s.split(): the maximal runs of non-whitespace characters
RECURSIVE SplitWsFrom(_,_,_,_)
SplitWsFrom(s, i, done, word) ==
  IF i > Len(s) THEN (IF word = <<>> THEN done ELSE Append(done, word))
  ELSE IF IsSpace(s[i])
       THEN SplitWsFrom(s, i + 1, IF word = <<>> THEN done ELSE Append(done, word), <<>>)
  ELSE SplitWsFrom(s, i + 1, done, Append(word, s[i]))

SplitWs(s) == SplitWsFrom(s, 1, <<>>, <<>>)

RECURSIVE JoinWith(_,_)
JoinWith(sep, parts) ==
  IF parts = <<>> THEN <<>>
  ELSE IF Len(parts) = 1 THEN Head(parts)
  ELSE Head(parts) \o sep \o JoinWith(sep, Tail(parts))

norm(s, case_sensitive) ==
  LET joined == JoinWith(<<" ">>, SplitWs(s))
      cased == IF case_sensitive THEN joined ELSE Lower(joined)
  IN FlattenSeq(MapSeq(FoldChar, cased))

\* ------------------------------------------------------------------ paths
IsAbs(p) == Len(p) > 0 /\ p[1] = "/"

\* p.split("/")
RECURSIVE SplitSepFrom(_,_,_,_)
SplitSepFrom(p, i, done, part) ==
  IF i > Len(p) THEN Append(done, part)
  ELSE IF p[i] = "/" THEN SplitSepFrom(p, i + 1, Append(done, part), <<>>)
  ELSE SplitSepFrom(p, i + 1, done, Append(part, p[i]))

SplitSep(p) == SplitSepFrom(p, 1, <<>>, <<>>)

\* the components commonpath and realpath work on: empty and "." dropped
Components(p) == SelectSeq(SplitSep(p), LAMBDA c : c # <<>> /\ c # <<".">>)

RECURSIVE LStrip(_,_)
LStrip(s, chars) ==
  IF s # <<>> /\ Head(s) \in chars THEN LStrip(Tail(s), chars) ELSE s

RECURSIVE RStrip(_,_)
RStrip(s, chars) ==
  IF s # <<>> /\ s[Len(s)] \in chars THEN RStrip(SubSeq(s, 1, Len(s) - 1), chars) ELSE s

\* os.path.join(a, b) of posixpath
PathJoin(a, b) ==
  IF IsAbs(b) THEN b
  ELSE IF a = <<>> \/ a[Len(a)] = "/" THEN a \o b
  ELSE a \o <<"/">> \o b

\* os.path.dirname(p) of posixpath
Dirname(p) ==
  LET i == LastIndex("/", p)
      head == SubSeq(p, 1, i)
  IN IF head # <<>> /\ RangeOf(head) # {"/"} THEN RStrip(head, {"/"}) ELSE head

\* os.path.basename(p) of posixpath
Basename(p) == SubSeq(p, LastIndex("/", p) + 1, Len(p))

\* longest common prefix of a non-empty sequence of component lists
RECURSIVE CommonPrefix(_)
CommonPrefix(lists) ==
  IF \E i \in 1..Len(lists) : lists[i] = <<>> THEN <<>>
  ELSE IF \A i \in 1..Len(lists) : Head(lists[i]) = Head(lists[1])
       THEN <<Head(lists[1])>> \o CommonPrefix(MapSeq(Tail, lists))
       ELSE <<>>

\* os.path.commonpath(paths): ok = FALSE stands for the ValueError raised on
\* an empty list or a mix of absolute and relative paths
CommonPath(paths) ==
  IF paths = <<>> \/ Cardinality({IsAbs(paths[i]) : i \in 1..Len(paths)}) # 1
  THEN [ok |-> FALSE, v |-> <<>>]
  ELSE [ok |-> TRUE,
        v |-> (IF IsAbs(paths[1]) THEN <<"/">> ELSE <<>>)
              \o JoinWith(<<"/">>, CommonPrefix(MapSeq(Components, paths)))]

\* the filesystem the tool runs on: working directory and symbolic links
Cwd == <<"/", "w">>
Symlinks == << [link |-> << <<"l">> >>, target |-> << <<"d">>, <<"b">> >>] >>

LinkTarget(comps) ==
  LET i == CHOOSE i \in 1..Len(Symlinks) : Symlinks[i].link = comps
  IN Symlinks[i].target

IsLink(comps) == \E i \in 1..Len(Symlinks) : Symlinks[i].link = comps

RECURSIVE ResolveComps(_,_)
ResolveComps(done, rest) ==
  IF rest = <<>> THEN done
  ELSE IF Head(rest) = <<".", ".">>
       THEN ResolveComps(IF done = <<>> THEN <<>> ELSE SubSeq(done, 1, Len(done) - 1), Tail(rest))
  ELSE LET cur == done \o <<Head(rest)>> IN
       ResolveComps(IF IsLink(cur) THEN LinkTarget(cur) ELSE cur, Tail(rest))

\* os.path.realpath(p): absolute, normalised, symbolic links resolved
realpath(p) ==
  LET a == IF IsAbs(p) THEN p ELSE PathJoin(Cwd, p)
  IN <<"/">> \o JoinWith(<<"/">>, ResolveComps(<<>>, Components(a)))

\* _apply_path_map applying the last of the mappings that match
_apply_path_map_LastMatch(p, path_map) ==
  IF p = <<>> THEN p
  ELSE IF \E i \in 1..Len(path_map) : StartsWith(p, path_map[i].src)
       THEN LET i == CHOOSE i \in 1..Len(path_map) :
                       /\ StartsWith(p, path_map[i].src)
                       /\ \A j \in (i+1)..Len(path_map) : ~StartsWith(p, path_map[j].src)
                tail == LStrip(SubSeq(p, Len(path_map[i].src) + 1, Len(p)), {"/", "\\"})
            IN PathJoin(path_map[i].dst, tail)
       ELSE p

_apply_path_map(p, path_map) ==
  IF p = <<>> THEN p
  ELSE IF \E i \in 1..Len(path_map) : StartsWith(p, path_map[i].src)
       THEN LET i == CHOOSE i \in 1..Len(path_map) :
                       /\ StartsWith(p, path_map[i].src)
                       /\ \A j \in 1..(i-1) : ~StartsWith(p, path_map[j].src)
                tail == LStrip(SubSeq(p, Len(path_map[i].src) + 1, Len(p)), {"/", "\\"})
            IN PathJoin(path_map[i].dst, tail)
       ELSE p

\* _is_within_roots comparing the resolved texts character by character
_is_within_roots_StringPrefix(p, roots) ==
  IF roots = <<>> THEN TRUE
  ELSE \E p_real \in {realpath(p)} :
         \E i \in 1..Len(roots) : StartsWith(p_real, realpath(roots[i]))

\* _is_within_roots answering True for every path
_is_within_roots_Always(p, roots) == TRUE

_is_within_roots(p, roots) ==
  IF roots = <<>> THEN TRUE
  ELSE \E p_real \in {realpath(p)} :
         \E i \in 1..Len(roots) :
           \E r_real \in {realpath(roots[i])} :
             \E cp \in {CommonPath(<<p_real, r_real>>)} : cp.ok /\ cp.v = r_real

\* lexical normalisation of an absolute form: os.path.abspath(p)
RECURSIVE NormComps(_,_)
NormComps(done, rest) ==
  IF rest = <<>> THEN done
  ELSE IF Head(rest) = <<".", ".">>
       THEN NormComps(IF done = <<>> THEN <<>> ELSE SubSeq(done, 1, Len(done) - 1), Tail(rest))
  ELSE NormComps(Append(done, Head(rest)), Tail(rest))

abspath(p) ==
  LET a == IF IsAbs(p) THEN p ELSE PathJoin(Cwd, p)
  IN <<"/">> \o JoinWith(<<"/">>, NormComps(<<>>, Components(a)))

\* os.path.relpath(path, start) of posixpath
relpath(path, start) ==
  LET sl == Components(abspath(start))
      pl == Components(abspath(path))
      i == Len(CommonPrefix(<<sl, pl>>))
      rel == [k \in 1..(Len(sl) - i) |-> <<".", ".">>] \o SubSeq(pl, i + 1, Len(pl))
  IN IF rel = <<>> THEN <<".">> ELSE JoinWith(<<"/">>, rel)

\* ------------------------------------------------------------------ items
Marker == "Duplicate"   \* the marker tag; a tag is one token

item_added_at(it) == it.addedAt

\* choose_keeper taking the last of the sorted items, the latest added
choose_keeper_Latest(items) ==
  LET i == CHOOSE i \in 1..Len(items) :
             /\ \A j \in 1..Len(items) : item_added_at(items[i]) >= item_added_at(items[j])
             /\ \A j \in (i+1)..Len(items) : item_added_at(items[j]) < item_added_at(items[i])
  IN items[i]

\* choose_keeper taking the last of the items tied for the least addedAt
choose_keeper_LastTie(items) ==
  LET i == CHOOSE i \in 1..Len(items) :
             /\ \A j \in 1..Len(items) : item_added_at(items[i]) <= item_added_at(items[j])
             /\ \A j \in (i+1)..Len(items) : item_added_at(items[j]) > item_added_at(items[i])
  IN items[i]

\* sorted(items, key=item_added_at)[0]: the sort is stable
choose_keeper(items) ==
  LET i == CHOOSE i \in 1..Len(items) :
             /\ \A j \in 1..Len(items) : item_added_at(items[i]) <= item_added_at(items[j])
             /\ \A j \in 1..(i-1) : item_added_at(items[j]) > item_added_at(items[i])
  IN items[i]

current_tags(it) == it.tags

title_for_group(it, use_ignore_prefix, case_sensitive) ==
  LET t == IF use_ignore_prefix /\ it.titleIgnorePrefix # <<>>
           THEN it.titleIgnorePrefix ELSE it.title
  IN norm(t, case_sensitive)

author_for_group(it, case_sensitive) == norm(it.authorName, case_sensitive)

series_for_group(it, case_sensitive) == norm(it.seriesName, case_sensitive)

make_key(it, by, use_ignore_prefix, case_sensitive) ==
  LET t == title_for_group(it, use_ignore_prefix, case_sensitive) IN
  CASE by = "title" -> t
    [] by = "title+author" -> t \o <<"|", "|">> \o author_for_group(it, case_sensitive)
    [] by = "title+series" -> t \o <<"|", "|">> \o series_for_group(it, case_sensitive)
    [] OTHER -> t

\* ------------------------------------------------------ Format Classifier
Fm4a == <<"m", "4", "a">>
Fmp4 == <<"m", "p", "4">>
Fm4b == <<"m", "4", "b">>
Fmp3 == <<"m", "p", "3">>
Funknown == <<"u", "n", "k", "n", "o", "w", "n">>
AudioSlash == <<"a", "u", "d", "i", "o", "/">>

\* text after the first "/"  (mt.split("/",1)[1])
AfterFirstSlash(mt) == SubSeq(mt, FirstIndex("/", mt) + 1, Len(mt))

\* text after the last "."  (p.rsplit(".",1)[-1])
AfterLastDot(p) == SubSeq(p, LastIndex(".", p) + 1, Len(p))

\* the tokens one audio file descriptor contributes, lines 129-138
FileTokens(lf) ==
  LET ext == LStrip(Lower(lf.ext), {"."})
      mt == Lower(lf.mimeType)
      FromPath(p) == IF InSeq(".", p) THEN << AfterLastDot(Lower(p)) >> ELSE <<>>
  IN (IF ext # <<>> THEN <<ext>> ELSE <<>>)
     \o (IF Contains(mt, AudioSlash) THEN << AfterFirstSlash(mt) >> ELSE <<>>)
     \o FromPath(lf.path) \o FromPath(lf.relPath)

\* the tokens one track contributes, lines 141-146
TrackTokens(tr) ==
  LET mt == Lower(tr.mimeType)
      title == Lower(tr.title)
  IN (IF Contains(mt, AudioSlash) THEN << AfterFirstSlash(mt) >> ELSE <<>>)
     \o (IF InSeq(".", title) THEN << AfterLastDot(title) >> ELSE <<>>)

IsAudio(lf) == Lower(lf.fileType) = <<"a", "u", "d", "i", "o">>

\* first occurrences only, order kept
RECURSIVE DedupFrom(_,_,_)
DedupFrom(s, i, out) ==
  IF i > Len(s) THEN out
  ELSE DedupFrom(s, i + 1, IF InSeq(s[i], out) THEN out ELSE Append(out, s[i]))

Dedup(s) == DedupFrom(s, 1, <<>>)

\* lines 125-150: the tokens collected from the files, else from the tracks,
\* mp4 taken for m4a
format_tokens(it) ==
  LET fromFiles == FlattenSeq(MapSeq(FileTokens, SelectSeq(it.libraryFiles, IsAudio)))
      fmts == IF fromFiles # <<>> THEN fromFiles
              ELSE FlattenSeq(MapSeq(TrackTokens, it.tracks))
  IN MapSeq(LAMBDA f : IF f \in {Fm4a, Fmp4} THEN Fm4a ELSE f, fmts)

\* lines 151-155: first occurrences only
item_formats(it) ==
  LET out == Dedup(format_tokens(it))
  IN IF out # <<>> THEN out ELSE <<Funknown>>

CountIn(x, s) == Cardinality({i \in 1..Len(s) : s[i] = x})

\* Counter(s).most_common(1)[0][0]: the first element of maximal count
MostCommon(s) ==
  LET i == CHOOSE i \in 1..Len(s) :
             /\ \A j \in 1..Len(s) : CountIn(s[j], s) <= CountIn(s[i], s)
             /\ \A j \in 1..(i-1) : CountIn(s[j], s) < CountIn(s[i], s)
  IN s[i]

dominant_format(it) == One({MostCommon(fmts) : fmts \in {item_formats(it)}})

\* ------------------------------------------------------ Path Safety Guard
\* the folder of an item; <<>> stands for both None and the empty string,
\* which the caller treats alike (if not folder)
_item_folder_from_files(it) ==
  IF LStrip(RStrip(it.path, {"TAB", " ", "NBSP"}), {"TAB", " ", "NBSP"}) # <<>> THEN it.path
  ELSE LET PathsOf(lf) ==
             (IF lf.path # <<>> THEN << Dirname(lf.path) >> ELSE <<>>)
             \o (IF lf.relPath # <<>> THEN << Dirname(lf.relPath) >> ELSE <<>>)
           paths == FlattenSeq(MapSeq(PathsOf, SelectSeq(it.libraryFiles, IsAudio)))
       IN IF paths = <<>> THEN <<>>
          ELSE IF CommonPath(paths).ok THEN CommonPath(paths).v
          ELSE paths[1]

\* ------------------------------------------------------------- filesystem
\* fs is the set of paths that exist, in canonical form; the ancestors of an
\* existing path exist too
PathComps(p) == ResolveComps(<<>>, Components(IF IsAbs(p) THEN p ELSE PathJoin(Cwd, p)))

IsPrefixSeq(a, b) == Len(a) <= Len(b) /\ SubSeq(b, 1, Len(a)) = a

\* q is p or lies below p
IsUnder(q, p) == IsPrefixSeq(PathComps(p), PathComps(q))

Exists(fsx, p) == \E q \in fsx : IsUnder(q, p)

MakeDirs(fsx, p) == fsx \cup {realpath(p)}

RemoveTree(fsx, p) == {q \in fsx : ~IsUnder(q, p)}

Reroot(q, src, dst) ==
  <<"/">> \o JoinWith(<<"/">>,
     PathComps(dst) \o SubSeq(PathComps(q), Len(PathComps(src)) + 1, Len(PathComps(q))))

MoveTree(fsx, src, dst) ==
  {q \in fsx : ~IsUnder(q, src)} \cup {Reroot(q, src, dst) : q \in {r \in fsx : IsUnder(r, src)}}

\* now_suffix(): the timestamp text of the clock value t
now_suffix(t) == <<"t">> \o << <<"2", "3", "4">>[t] >>

\* _remove_path(src): rmtree of a directory; os.remove of anything else
\* raises on a missing path, which is caught
_remove_path(fsx, src) ==
  IF Exists(fsx, src) THEN [ok |-> TRUE, fs |-> RemoveTree(fsx, src)]
  ELSE [ok |-> FALSE, fs |-> fsx]

\* lines 209-218: the path of src below the trash root
TrashRel(src, roots) ==
  LET Hit(r) == \E s_real \in {realpath(src)}, r_real \in {realpath(r)} :
                  \E cp \in {CommonPath(<<s_real, r_real>>)} : cp.ok /\ cp.v = r_real
      hits == SelectSeq(roots, Hit)
  IN IF hits # <<>> THEN relpath(src, hits[1]) ELSE Basename(src)

\* lines 221-222
TrashDest(fsx, dest, t) ==
  IF Exists(fsx, dest) THEN dest \o <<".">> \o now_suffix(t) ELSE dest

\* shutil.move(src, dest): into dest when dest is a directory; fails (an
\* exception, caught at line 225) when src is missing, when the target
\* exists or when the target lies in src
ShutilMove(fsx, src, dest) ==
  One({ IF ~Exists(fsx, src) \/ Exists(fsx, real_dst) \/ IsUnder(real_dst, src)
        THEN [ok |-> FALSE, dest |-> dest, fs |-> fsx]
        ELSE [ok |-> TRUE, dest |-> dest, fs |-> MoveTree(fsx, src, real_dst)] :
        real_dst \in {IF Exists(fsx, dest)
                      THEN PathJoin(dest, Basename(RStrip(src, {"/"}))) ELSE dest} })

\* _move_to_trash(src, trash_root, roots) once both makedirs calls succeeded
_move_to_trash(fsx, src, trash_root, roots, t) ==
  One(UNION { { ShutilMove(fs1, src, TrashDest(fs1, dest0, t)) :
                fs1 \in {MakeDirs(MakeDirs(fsx, trash_root), Dirname(dest0))} } :
              dest0 \in {PathJoin(trash_root, TrashRel(src, roots))} })

\* ------------------------------------------------------- the catalog data
ItemIds == 1..MaxItems
Libraries == <<"L1", "L2">>

LibOf(i) == IF i <= 3 THEN "L1" ELSE "L2"

DirChar(i) == <<"a", "b", "c", "d", "e", "f">>[((i - 1) % 6) + 1]

TitleOf(i) ==
  << <<"A", " ", "b">>, <<"a", " ", " ", "b">>, <<"TAB", "a", " ", "b">> >>[((i - 1) % 3) + 1]

AddedAtOf(i) == <<20, 30, 25, 10, 10, 30>>[((i - 1) % 6) + 1]

TagsOf(i) == << <<"x">>, <<>>, <<"x", Marker>>, <<Marker>> >>[((i - 1) % 4) + 1]

ExtOf(i) == IF i % 2 = 1 THEN <<".", "m", "p", "3">> ELSE <<"M", "4", "B">>

FileNameOf(i) == IF i % 2 = 1 THEN <<"f", ".", "m", "p", "3">> ELSE <<"f", ".", "m", "4", "b">>

\* where the catalog says the files of an item are: in the item's own path
\* (a container path below the mapped prefix), in the paths of its audio
\* files only (a host path outside the allow-root), or nowhere.  The m4b
\* copies (even ids) always have the item path.
FolderKinds == {"item", "files", "none"}

FolderKindsOf(i) == IF i % 2 = 1 THEN FolderKinds ELSE {"item"}

RootPath == <<"/", "d", "/", "b">>
TrashDir == <<"/", "t">>
PathMap == << [src |-> <<"/", "c">>, dst |-> <<"/", "d">>] >>

\* one item record as the catalog returns it (the fields main() reads)
MkItem(i, kind) ==
  [id |-> i, libraryId |-> LibOf(i), addedAt |-> AddedAtOf(i),
   title |-> TitleOf(i), titleIgnorePrefix |-> <<>>,
   authorName |-> <<"e">>, seriesName |-> <<>>,
   tags |-> TagsOf(i),
   path |-> IF kind = "item" THEN <<"/", "c", "/", "b", "/", DirChar(i)>> ELSE <<>>,
   libraryFiles |->
     << [fileType |-> <<"a", "u", "d", "i", "o">>, ext |-> ExtOf(i), mimeType |-> <<>>,
         path |-> IF kind = "files" THEN <<"/", "e", "/", DirChar(i), "/">> \o FileNameOf(i)
                  ELSE <<>>,
         relPath |-> <<>>] >>,
   tracks |-> <<>>]

\* the host folders that hold the files of the items
FsOf(items, path_map) ==
  {realpath(_apply_path_map(_item_folder_from_files(items[i]), path_map)) :
     i \in {j \in 1..Len(items) : _item_folder_from_files(items[j]) # <<>>}}

\* ------------------------------------------------------------------ state
VARIABLES
  opts,                 \* the resolved options (resolve_options)
  library,              \* the items the catalog held when the behaviour began
  absItems,             \* catalog: ids of the items it holds now
  absTags,              \* catalog: the tags of each item
  fs,                   \* local filesystem: the paths that exist
  now,                  \* the clock, as read by now_suffix
  pc,                   \* position in main()
  run,                  \* 1 for the first run of the tool, 2 for a re-run
  faults,               \* environment failures so far
  calls,                \* the mutating calls issued to catalog and filesystem
  stats,                \* main(): stats
  libs_left,            \* main(): libraries of `chosen` still to scan
  dup_sets,             \* main(): dup_sets, each with its report entry
  pending_tag_updates,  \* main(): pending_tag_updates
  gi,                   \* main(): index of the group the prune loop is at
  cur,                  \* main(): chosen_fmt, keeper, to_remove of that group
  probe                 \* a helper called on its own: its name, its arguments
                        \* and what it returned

vars == << opts, library, absItems, absTags, fs, now, pc, run, faults, calls,
           stats, libs_left, dup_sets, pending_tag_updates, gi, cur, probe >>

env == << absItems, absTags, fs >>
locals == << stats, libs_left, dup_sets, pending_tag_updates, gi, cur >>

Stats0 ==
  [errors |-> 0, items_total |-> 0, dupe_books |-> 0, prune_books |-> 0,
   files_moved |-> 0, files_deleted |-> 0, files_skipped_outside_roots |-> 0,
   abs_deleted |-> 0, tag_removed_survivors |-> 0]

Probe0 == [fn |-> "none", args |-> <<>>, outs |-> <<>>]

Cur0 == [chosen_fmt |-> <<>>, keeper |-> 0, to_remove |-> <<>>, ri |-> 0]

Bump(st, f, n) == [st EXCEPT ![f] = @ + n]

B2N(b) == IF b THEN 1 ELSE 0

OptionSets ==
  [apply : BOOLEAN, prune : BOOLEAN, assume_yes : BOOLEAN,
   clean_tags_after_prune : BOOLEAN, tag_all : BOOLEAN,
   delete_files : {"off", "trash", "remove"},
   allow_roots : {<<>>, <<RootPath>>},
   path_map : {PathMap}, trash_dir : {TrashDir}, tag : {Marker},
   by : {"title"}, use_ignore_prefix : {TRUE}, case_sensitive : {FALSE},
   preferred_formats : {<<>>}]

InitWith(optionSet) ==
  /\ opts \in optionSet
  /\ \E kinds \in {k \in [ItemIds -> FolderKinds] : \A i \in ItemIds : k[i] \in FolderKindsOf(i)} :
       library = [i \in ItemIds |-> MkItem(i, kinds[i])]
  /\ absItems = ItemIds
  /\ absTags = [i \in ItemIds |-> TagsOf(i)]
  /\ fs = FsOf(library, opts.path_map)
  /\ now = 1
  /\ pc = "start"
  /\ run = 1
  /\ faults = 0
  /\ calls = <<>>
  /\ stats = Stats0
  /\ libs_left = <<>>
  /\ dup_sets = <<>>
  /\ pending_tag_updates = <<>>
  /\ gi = 0
  /\ cur = Cur0
  /\ probe = Probe0

Init == InitWith(OptionSets)

\* ---------------------------------------------------------- catalog (ABS)
\* GET /api/libraries/<id>/items: the items of the library, with their tags
fetch_library_items(lib) ==
  LET held == SelectSeq(library, LAMBDA it : it.id \in absItems /\ it.libraryId = lib)
  IN MapSeq(LAMBDA it : [it EXCEPT !.tags = absTags[it.id]], held)

\* lines 82-88: what delete_item_from_abs returns for the status code of the
\* answer to DELETE /api/items/<id>
delete_item_from_abs(status) == status \in {200, 204} \/ status = 404

\* POST /api/items/batch/update: the tags of each held item are replaced
RECURSIVE ServerUpdateTags(_,_,_)
ServerUpdateTags(tags, held, updates) ==
  IF updates = <<>> THEN tags
  ELSE LET u == Head(updates)
           t1 == IF u.id \in held THEN [tags EXCEPT ![u.id] = u.tags] ELSE tags
       IN ServerUpdateTags(t1, held, Tail(updates))

BatchSize == 100

\* the chunks batch_update_tags posts, in order
RECURSIVE Chunks(_)
Chunks(updates) ==
  IF updates = <<>> THEN <<>>
  ELSE IF Len(updates) <= BatchSize THEN <<updates>>
  ELSE <<SubSeq(updates, 1, BatchSize)>> \o Chunks(SubSeq(updates, BatchSize + 1, Len(updates)))

\* the calls and the catalog after batch_update_tags(updates) went through
BatchCalls(updates, phase) ==
  MapSeq(LAMBDA c : [op |-> "batch_update", phase |-> phase, group |-> gi, updates |-> c],
         Chunks(updates))

\* ---------------------------------------------------------------- Grouper
\* the groups of one library with the groups of a single item kept
GroupsOf_KeepSingles(items, o) ==
  One({ LET keyed == SelectSeq(pairs, LAMBDA q : q.key # <<>>)
            keys == Dedup(MapSeq(LAMBDA q : q.key, keyed))
            GroupOf(k) == MapSeq(LAMBDA q : q.it, SelectSeq(keyed, LAMBDA q : q.key = k))
        IN MapSeq(GroupOf, keys) :
        pairs \in { [i \in 1..Len(items) |->
                       [it |-> items[i],
                        key |-> make_key(items[i], o.by, o.use_ignore_prefix, o.case_sensitive)]] } })

\* lines 449-455: the groups of one library, in order of first appearance,
\* singletons dropped
GroupsOf(items, o) ==
  One({ LET keyed == SelectSeq(pairs, LAMBDA q : q.key # <<>>)
            keys == Dedup(MapSeq(LAMBDA q : q.key, keyed))
            GroupOf(k) == MapSeq(LAMBDA q : q.it, SelectSeq(keyed, LAMBDA q : q.key = k))
        IN SelectSeq(MapSeq(GroupOf, keys), LAMBDA g : Len(g) > 1) :
        pairs \in { [i \in 1..Len(items) |->
                       [it |-> items[i],
                        key |-> make_key(items[i], o.by, o.use_ignore_prefix, o.case_sensitive)]] } })

\* ------------------------------------------------- tagging phase, per group
\* line 467: the members the tagging loop looks at
\* every member of the group taken for a member to tag, the keeper included
TagEligible_All(o, it, keeper_id) == TRUE

TagEligible(o, it, keeper_id) == o.tag_all \/ it.id # keeper_id

\* lines 466-478 for one group
TagGroup(o, group) ==
  LET keeper_id == choose_keeper(group).id
      elig == SelectSeq(group, LAMBDA it : TagEligible(o, it, keeper_id))
      toAdd == SelectSeq(group, LAMBDA it : TagEligible(o, it, keeper_id)
                                            /\ ~InSeq(o.tag, current_tags(it)))
  IN [keeper_id |-> keeper_id,
      tag_added |-> Len(toAdd),
      tag_skipped |-> Len(elig) - Len(toAdd),
      updates |-> IF o.apply
                  THEN MapSeq(LAMBDA it : [id |-> it.id, tags |-> Append(current_tags(it), o.tag)], toAdd)
                  ELSE <<>>]

\* _make_entry: the report entry of a group (the fields the run updates)
_make_entry(o, group, keeper_id, tg) ==
  [keeper_id |-> keeper_id, tag_added |-> tg.tag_added, tag_skipped |-> tg.tag_skipped,
   keep_format |-> <<>>, to_delete_count |-> 0,
   file_moved |-> 0, file_deleted |-> 0, file_skipped |-> 0, skipped_paths |-> <<>>,
   abs_deleted |-> 0, kept_tag_removed |-> FALSE, dry_run |-> ~o.apply]

\* ------------------------------------------------------------ the actions
\* lines 426-435: fetch_libraries and select_libraries
FetchLibraries ==
  /\ pc = "start"
  /\ pc' = "scan"
  /\ libs_left' = Libraries
  /\ UNCHANGED << probe, opts, library, env, now, run, faults, calls, stats, dup_sets,
                  pending_tag_updates, gi, cur >>

\* line 429: fetch_libraries raised, sys.exit(1)
FetchLibrariesFails ==
  /\ pc = "start"
  /\ faults < MaxFaults
  /\ faults' = faults + 1
  /\ pc' = "exit"
  /\ UNCHANGED << probe, opts, library, env, now, run, calls, locals >>

\* lines 440-478 for one library whose items were fetched
ScanLibrary ==
  /\ pc = "scan"
  /\ libs_left # <<>>
  /\ \E items \in {fetch_library_items(Head(libs_left))} :
       \E groups \in {GroupsOf(items, opts)} :
         \E tgs \in {MapSeq(LAMBDA g : TagGroup(opts, g), groups)} :
           /\ stats' = Bump(Bump(stats, "items_total", Len(items)), "dupe_books", Len(groups))
           /\ dup_sets' = dup_sets \o
                [k \in 1..Len(groups) |->
                   [lib |-> Head(libs_left), group |-> groups[k],
                    entry |-> _make_entry(opts, groups[k], tgs[k].keeper_id, tgs[k])]]
           /\ pending_tag_updates' = pending_tag_updates
                \o FlattenSeq(MapSeq(LAMBDA t : t.updates, tgs))
  /\ libs_left' = Tail(libs_left)
  /\ UNCHANGED << probe, opts, library, env, now, pc, run, faults, calls, gi, cur >>

\* lines 444-445: fetch_library_items raised; counted, the library is skipped
ScanLibraryFails ==
  /\ pc = "scan"
  /\ libs_left # <<>>
  /\ faults < MaxFaults
  /\ faults' = faults + 1
  /\ stats' = Bump(stats, "errors", 1)
  /\ libs_left' = Tail(libs_left)
  /\ UNCHANGED << probe, opts, library, env, now, pc, run, calls, dup_sets,
                  pending_tag_updates, gi, cur >>

\* where main() goes after the tagging phase: line 486 and the loop of 493
AfterTagging == IF opts.prune /\ dup_sets # <<>> THEN "choose" ELSE "summary"

\* lines 480-484: the batch update of the tagging phase
ApplyTagUpdates ==
  /\ pc = "scan"
  /\ libs_left = <<>>
  /\ IF opts.apply /\ pending_tag_updates # <<>>
     THEN /\ calls' = calls \o BatchCalls(pending_tag_updates, "tag")
          /\ absTags' = ServerUpdateTags(absTags, absItems, pending_tag_updates)
     ELSE UNCHANGED << calls, absTags >>
  /\ pc' = AfterTagging
  /\ gi' = 1
  /\ UNCHANGED << probe, opts, library, absItems, fs, now, run, faults, stats, libs_left,
                  dup_sets, pending_tag_updates, cur >>

\* lines 69-71: the batch update was refused or the request raised; nothing
\* in main() catches it
ApplyTagUpdatesRaises ==
  /\ pc = "scan"
  /\ libs_left = <<>>
  /\ opts.apply /\ pending_tag_updates # <<>>
  /\ faults < MaxFaults
  /\ faults' = faults + 1
  /\ calls' = calls \o BatchCalls(pending_tag_updates, "tag")
  /\ pc' = "aborted"
  /\ UNCHANGED << probe, opts, library, env, now, run, locals >>

\* ----------------------------------------------------- prune phase, helpers
\* sorted(S) of a set of texts
RECURSIVE SortTexts(_)
SortTexts(S) ==
  IF S = {} THEN <<>>
  ELSE LET m == CHOOSE m \in S : \A x \in S \ {m} : TextLess(m, x)
       IN <<m>> \o SortTexts(S \ {m})

\* line 494-496: the members of the group whose dominant format is fmt
by_fmt(group, fmt) == SelectSeq(group, LAMBDA it : dominant_format(it) = fmt)

FormatsOf(group) == {dominant_format(group[i]) : i \in 1..Len(group)}

\* line 492
Preferred(o) == IF o.preferred_formats # <<>> THEN o.preferred_formats ELSE <<Fm4b, Fmp3>>

\* the first of the sorted formats of the group, the preferences left aside
default_fmt_SortedFirst(o, group) ==
  One({ IF fmts # <<>> THEN fmts[1] ELSE <<>> : fmts \in {SortTexts(FormatsOf(group))} })

\* line 500: the first preferred format the group has, else the first of
\* the sorted formats; <<>> stands for None
default_fmt(o, group) ==
  One({ LET pref == SelectSeq(Preferred(o), LAMBDA f : f \in have)
            fmts == SortTexts(have)
        IN IF pref # <<>> THEN pref[1] ELSE IF fmts # <<>> THEN fmts[1] ELSE <<>> :
        have \in {FormatsOf(group)} })

\* ask_choice: the value returned for an accepted answer; ans = <<>> is the
\* empty line
ask_choice(choices, default, ans) == IF ans = <<>> /\ default # <<>> THEN default ELSE ans

\* ask_choice taking an answer that is not among the choices
Answers_Unchecked(choices, default) ==
  choices \cup {Fm4a} \cup (IF default # <<>> THEN {<<>>} ELSE {})

\* the answers ask_choice accepts
Answers(choices, default) == choices \cup (IF default # <<>> THEN {<<>>} ELSE {})

\* line 518
ToRemove(group, keep_id) == SelectSeq(group, LAMBDA it : it.id # keep_id)

\* FileDisposition without the test of apply at line 537
FileDisposition_IgnoresApply(o, it) ==
  One({ IF folder = <<>> THEN "nofolder"
        ELSE IF o.delete_files = "off" THEN "off"
        ELSE IF ~_is_within_roots(_apply_path_map(folder, o.path_map), o.allow_roots) THEN "skip"
        ELSE o.delete_files :
        folder \in {_item_folder_from_files(it)} })

\* FileDisposition taking a missing folder for files to leave alone, without
\* the error of line 526
FileDisposition_NoFolderOff(o, it) ==
  One({ IF folder = <<>> THEN "off"
        ELSE IF o.delete_files = "off" THEN "off"
        ELSE IF ~_is_within_roots(_apply_path_map(folder, o.path_map), o.allow_roots) THEN "skip"
        ELSE IF o.apply THEN o.delete_files
        ELSE IF o.delete_files = "trash" THEN "dry_trash"
        ELSE "dry_remove" :
        folder \in {_item_folder_from_files(it)} })

\* lines 523-556: what the file step does with one removal candidate
FileDisposition(o, it) ==
  One({ IF folder = <<>> THEN "nofolder"
        ELSE IF o.delete_files = "off" THEN "off"
        ELSE IF ~_is_within_roots(_apply_path_map(folder, o.path_map), o.allow_roots) THEN "skip"
        ELSE IF o.apply THEN o.delete_files
        ELSE IF o.delete_files = "trash" THEN "dry_trash"
        ELSE "dry_remove" :
        folder \in {_item_folder_from_files(it)} })

MappedFolder(o, it) == _apply_path_map(_item_folder_from_files(it), o.path_map)

\* the catalog deletion requested only for a candidate the file step did
\* not skip as outside the allow-roots
AbsDeleteRequested_NotSkipped(o, it) == o.apply /\ FileDisposition(o, it) # "skip"

\* the catalog deletion requested only for a candidate with a folder
AbsDeleteRequested_HasFolder(o, it) == o.apply /\ FileDisposition(o, it) # "nofolder"

\* line 559: the catalog deletion is requested for the candidate
AbsDeleteRequested(o, it) == o.apply

\* the reconciliation governed by clean_tags_after_prune alone
CleanEnabled_CleanFlagOnly(o) == o.clean_tags_after_prune

\* line 568: the keeper's marker is removed after the prune of a group
CleanEnabled(o) == o.clean_tags_after_prune /\ o.assume_yes

\* the reconciliation sending an empty tag list
WithoutTag_Empty(tags, tag) == <<>>

\* line 572
WithoutTag(tags, tag) == SelectSeq(tags, LAMBDA t : t # tag)

Group == dup_sets[gi].group
Candidate == cur.to_remove[cur.ri]

SetEntry(f, v) == [dup_sets EXCEPT ![gi].entry[f] = v]
BumpEntry(f, n) == [dup_sets EXCEPT ![gi].entry[f] = @ + n]

\* the for loop of line 493 moves to the next group or ends
NextGroupPc == IF gi < Len(dup_sets) THEN "choose" ELSE "summary"

\* ---------------------------------------------------- prune phase, actions
\* lines 494-520: formats, choice of the format to keep, keeper, to_remove
PruneChoose ==
  /\ pc = "choose"
  /\ \E fmts \in {FormatsOf(Group)} :
       \E dflt \in {default_fmt(opts, Group)} :
         \E ans \in (IF opts.assume_yes /\ dflt # <<>> THEN {<<>>} ELSE Answers(fmts, dflt)) :
           \E chosen_fmt \in {IF opts.assume_yes /\ dflt # <<>> THEN dflt
                               ELSE ask_choice(fmts, dflt, ans)} :
             \E keep_list \in {by_fmt(Group, chosen_fmt)} :
               IF keep_list = <<>>
               THEN /\ dup_sets' = SetEntry("keep_format", chosen_fmt)
                    /\ pc' = NextGroupPc
                    /\ gi' = IF gi < Len(dup_sets) THEN gi + 1 ELSE gi
                    /\ UNCHANGED << cur, stats >>
               ELSE \E keeper \in {choose_keeper(keep_list)} :
                      \E to_remove \in {ToRemove(Group, keeper.id)} :
                        /\ dup_sets' = [dup_sets EXCEPT
                                          ![gi].entry.keep_format = chosen_fmt,
                                          ![gi].entry.to_delete_count = Len(to_remove)]
                        /\ stats' = Bump(stats, "prune_books", 1)
                        /\ cur' = [chosen_fmt |-> chosen_fmt, keeper |-> keeper,
                                   to_remove |-> to_remove, ri |-> 1]
                        /\ pc' = IF to_remove = <<>> THEN "abs" ELSE "files"
                        /\ UNCHANGED gi
  /\ UNCHANGED << probe, opts, library, env, now, run, faults, calls, libs_left,
                  pending_tag_updates >>

\* the loop of line 522 moves to the next candidate or to the loop of 558
AfterFile ==
  /\ pc' = IF cur.ri < Len(cur.to_remove) THEN "files" ELSE "abs"
  /\ cur' = [cur EXCEPT !.ri = IF cur.ri < Len(cur.to_remove) THEN @ + 1 ELSE 1]

FileCall(op) == [op |-> op, phase |-> "prune", group |-> gi, id |-> Candidate.id,
                 path |-> MappedFolder(opts, Candidate)]

\* lines 523-556 for one candidate, the file operation behaving as the
\* filesystem dictates
PruneFile ==
  /\ pc = "files"
  /\ \E d \in {FileDisposition(opts, Candidate)}, mapped \in {MappedFolder(opts, Candidate)} :
      \E mv \in {IF d = "trash"
                  THEN _move_to_trash(fs, mapped, opts.trash_dir, opts.allow_roots, now)
                  ELSE [ok |-> FALSE, dest |-> <<>>, fs |-> fs]},
         rm \in {IF d = "remove" THEN _remove_path(fs, mapped) ELSE [ok |-> FALSE, fs |-> fs]} :
        CASE d = "nofolder" ->
               /\ stats' = Bump(stats, "errors", 1)
               /\ UNCHANGED << dup_sets, fs, calls >>
          [] d = "off" -> UNCHANGED << stats, dup_sets, fs, calls >>
          [] d = "skip" ->
               /\ dup_sets' = [dup_sets EXCEPT
                    ![gi].entry.file_skipped = @ + 1,
                    ![gi].entry.skipped_paths = IF Len(@) < 2 THEN Append(@, mapped) ELSE @]
               /\ stats' = Bump(stats, "files_skipped_outside_roots", 1)
               /\ UNCHANGED << fs, calls >>
          [] d = "trash" ->
               /\ fs' = mv.fs
               /\ calls' = Append(calls, FileCall("move"))
               /\ dup_sets' = BumpEntry("file_moved", B2N(mv.ok))
               /\ stats' = Bump(Bump(stats, "files_moved", B2N(mv.ok)), "errors", B2N(~mv.ok))
          [] d = "remove" ->
               /\ fs' = rm.fs
               /\ calls' = Append(calls, FileCall("remove"))
               /\ dup_sets' = BumpEntry("file_deleted", B2N(rm.ok))
               /\ stats' = Bump(Bump(stats, "files_deleted", B2N(rm.ok)), "errors", B2N(~rm.ok))
          [] d = "dry_trash" ->
               /\ dup_sets' = BumpEntry("file_moved", 1)
               /\ UNCHANGED << stats, fs, calls >>
          [] d = "dry_remove" ->
               /\ dup_sets' = BumpEntry("file_deleted", 1)
               /\ UNCHANGED << stats, fs, calls >>
  /\ AfterFile
  /\ UNCHANGED << probe, opts, library, absItems, absTags, now, run, faults, libs_left,
                  pending_tag_updates, gi >>

\* lines 223-227 and 230-236: shutil.move, rmtree or os.remove raised (no
\* permission, busy file); caught, the operation returns False
PruneFileFails ==
  /\ pc = "files"
  /\ FileDisposition(opts, Candidate) \in {"trash", "remove"}
  /\ faults < MaxFaults
  /\ faults' = faults + 1
  /\ IF FileDisposition(opts, Candidate) = "trash"
     THEN /\ fs' = MakeDirs(fs, opts.trash_dir)
          /\ calls' = Append(calls, FileCall("move"))
     ELSE /\ fs' = fs
          /\ calls' = Append(calls, FileCall("remove"))
  /\ stats' = Bump(stats, "errors", 1)
  /\ AfterFile
  /\ UNCHANGED << probe, opts, library, absItems, absTags, now, run, libs_left, dup_sets,
                  pending_tag_updates, gi >>

\* lines 208 and 220: os.makedirs raised in _move_to_trash, outside its try;
\* nothing in main() catches it
PruneFileRaises ==
  /\ pc = "files"
  /\ FileDisposition(opts, Candidate) = "trash"
  /\ faults < MaxFaults
  /\ faults' = faults + 1
  /\ calls' = Append(calls, FileCall("move"))
  /\ pc' = "aborted"
  /\ UNCHANGED << probe, opts, library, env, now, run, locals >>

\* the catalog deletion of a candidate followed by the file step of the next
AfterAbs_BackToFiles ==
  /\ pc' = IF cur.ri < Len(cur.to_remove) THEN "files" ELSE "clean"
  /\ cur' = [cur EXCEPT !.ri = IF cur.ri < Len(cur.to_remove) THEN @ + 1 ELSE 1]

\* the loop of line 558 moves to the next candidate or to line 568
AfterAbs ==
  /\ pc' = IF cur.ri < Len(cur.to_remove) THEN "abs" ELSE "clean"
  /\ cur' = [cur EXCEPT !.ri = IF cur.ri < Len(cur.to_remove) THEN @ + 1 ELSE 1]

AbsCall == [op |-> "abs_delete", phase |-> "prune", group |-> gi, id |-> Candidate.id,
            path |-> <<>>]

\* lines 559-566 for one candidate; the catalog answers 200 for an item it
\* holds and 404 for one it does not, both count as deleted
PruneAbsDelete ==
  /\ pc = "abs"
  /\ IF AbsDeleteRequested(opts, Candidate)
     THEN /\ calls' = Append(calls, AbsCall)
          /\ absItems' = absItems \ {Candidate.id}
          /\ dup_sets' = BumpEntry("abs_deleted", 1)
          /\ stats' = Bump(stats, "abs_deleted", 1)
     ELSE UNCHANGED << calls, absItems, dup_sets, stats >>
  /\ AfterAbs
  /\ UNCHANGED << probe, opts, library, absTags, fs, now, run, faults, libs_left,
                  pending_tag_updates, gi >>

\* lines 87-88: the catalog answered with another status; counted as error
PruneAbsDeleteFails ==
  /\ pc = "abs"
  /\ AbsDeleteRequested(opts, Candidate)
  /\ faults < MaxFaults
  /\ faults' = faults + 1
  /\ calls' = Append(calls, AbsCall)
  /\ stats' = Bump(stats, "errors", 1)
  /\ AfterAbs
  /\ UNCHANGED << probe, opts, library, env, now, run, libs_left, dup_sets,
                  pending_tag_updates, gi >>

\* line 80: requests.delete raised (no connection, timeout); nothing in
\* delete_item_from_abs or main() catches it
PruneAbsDeleteRaises ==
  /\ pc = "abs"
  /\ AbsDeleteRequested(opts, Candidate)
  /\ faults < MaxFaults
  /\ faults' = faults + 1
  /\ calls' = Append(calls, AbsCall)
  /\ pc' = "aborted"
  /\ UNCHANGED << probe, opts, library, env, now, run, locals >>

\* line 569-573: the update that strips the marker from the keeper
CleanUpdates(o, keeper) ==
  << [id |-> keeper.id, tags |-> WithoutTag(current_tags(keeper), o.tag)] >>

\* lines 568-579, then the next group
PruneCleanTags ==
  /\ pc = "clean"
  /\ IF CleanEnabled(opts)
     THEN /\ IF opts.apply
             THEN /\ calls' = calls \o BatchCalls(CleanUpdates(opts, cur.keeper), "prune")
                  /\ absTags' = ServerUpdateTags(absTags, absItems, CleanUpdates(opts, cur.keeper))
             ELSE UNCHANGED << calls, absTags >>
          /\ dup_sets' = SetEntry("kept_tag_removed", TRUE)
          /\ stats' = Bump(stats, "tag_removed_survivors", 1)
     ELSE UNCHANGED << calls, absTags, dup_sets, stats >>
  /\ pc' = NextGroupPc
  /\ gi' = IF gi < Len(dup_sets) THEN gi + 1 ELSE gi
  /\ UNCHANGED << probe, opts, library, absItems, fs, now, run, faults, libs_left,
                  pending_tag_updates, cur >>

\* lines 69-71 from line 575: the batch update raised; nothing catches it
PruneCleanTagsRaises ==
  /\ pc = "clean"
  /\ CleanEnabled(opts) /\ opts.apply
  /\ faults < MaxFaults
  /\ faults' = faults + 1
  /\ calls' = calls \o BatchCalls(CleanUpdates(opts, cur.keeper), "prune")
  /\ pc' = "aborted"
  /\ UNCHANGED << probe, opts, library, env, now, run, locals >>

\* lines 581-635: the final summary
Summary ==
  /\ pc = "summary"
  /\ pc' = "done"
  /\ UNCHANGED << probe, opts, library, env, now, run, faults, calls, locals >>

Next ==
  \/ FetchLibraries
  \/ FetchLibrariesFails
  \/ ScanLibrary
  \/ ScanLibraryFails
  \/ ApplyTagUpdates
  \/ ApplyTagUpdatesRaises
  \/ PruneChoose
  \/ PruneFile
  \/ PruneFileFails
  \/ PruneFileRaises
  \/ PruneAbsDelete
  \/ PruneAbsDeleteFails
  \/ PruneAbsDeleteRaises
  \/ PruneCleanTags
  \/ PruneCleanTagsRaises
  \/ Summary

Spec == Init /\ [][Next]_vars

\* ------------------------------------------------- interrupted run, re-run
\* The process is killed in the prune phase (lines 493-579) between two of
\* its steps and main() is started again with the same options: what the
\* process held in memory is lost, the catalog and the files stay as the
\* first run left them.
Crash ==
  /\ run = 1
  /\ pc \in {"choose", "files", "abs", "clean"}
  /\ run' = 2
  /\ pc' = "start"
  /\ now' = now + 1
  /\ stats' = Stats0
  /\ libs_left' = <<>>
  /\ dup_sets' = <<>>
  /\ pending_tag_updates' = <<>>
  /\ gi' = 0
  /\ cur' = Cur0
  /\ UNCHANGED << probe, opts, library, env, faults, calls >>

\* an applying run with prune, assume_yes and clean_tags_after_prune
RerunOptionSets ==
  {o \in OptionSets : o.apply /\ o.prune /\ o.assume_yes /\ o.clean_tags_after_prune}

InitRerun == InitWith(RerunOptionSets)

NextRerun ==
  \/ FetchLibraries
  \/ FetchLibrariesFails
  \/ ScanLibrary
  \/ ScanLibraryFails
  \/ ApplyTagUpdates
  \/ ApplyTagUpdatesRaises
  \/ PruneChoose
  \/ PruneFile
  \/ PruneFileFails
  \/ PruneFileRaises
  \/ PruneAbsDelete
  \/ PruneAbsDeleteFails
  \/ PruneAbsDeleteRaises
  \/ PruneCleanTags
  \/ PruneCleanTagsRaises
  \/ Summary
  \/ Crash

SpecRerun == InitRerun /\ [][NextRerun]_vars

\* ------------------------------------------------ runs with preferred formats
\* Runs of the prune phase under several preferred_formats lists, no request
\* failing.
PrefOptionSets ==
  [apply : BOOLEAN, prune : {TRUE}, assume_yes : BOOLEAN,
   clean_tags_after_prune : {TRUE}, tag_all : {FALSE},
   delete_files : {"off"},
   allow_roots : {<<RootPath>>},
   path_map : {PathMap}, trash_dir : {TrashDir}, tag : {Marker},
   by : {"title"}, use_ignore_prefix : {TRUE}, case_sensitive : {FALSE},
   preferred_formats : {<<>>, <<Fm4a>>, <<Fmp3, Fm4b>>, <<Fm4a, Fmp3>>}]

InitPrefs == InitWith(PrefOptionSets)

NextPrefs ==
  \/ FetchLibraries
  \/ ScanLibrary
  \/ ApplyTagUpdates
  \/ PruneChoose
  \/ PruneFile
  \/ PruneAbsDelete
  \/ PruneCleanTags
  \/ Summary

SpecPrefs == InitPrefs /\ [][NextPrefs]_vars

\* ------------------------------------------- runs over items of several tags
\* Applying and simulated runs over catalogs whose items carry other tags,
\* the marker, both (the marker once or twice) or none, no request failing.
TagOptionSets ==
  [apply : BOOLEAN, prune : {TRUE}, assume_yes : {TRUE},
   clean_tags_after_prune : {TRUE}, tag_all : BOOLEAN,
   delete_files : {"off"},
   allow_roots : {<<RootPath>>},
   path_map : {PathMap}, trash_dir : {TrashDir}, tag : {Marker},
   by : {"title"}, use_ignore_prefix : {TRUE}, case_sensitive : {FALSE},
   preferred_formats : {<<>>, <<Fmp3>>}]

TagListChoices == { <<>>, <<"x">>, <<"x", Marker, "y">>, <<Marker, "x", Marker>> }

InitTags ==
  /\ opts \in TagOptionSets
  /\ \E tags \in [ItemIds -> TagListChoices] :
       /\ library = [i \in ItemIds |-> [MkItem(i, "item") EXCEPT !.tags = tags[i]]]
       /\ absTags = tags
  /\ absItems = ItemIds
  /\ fs = FsOf(library, opts.path_map)
  /\ now = 1
  /\ pc = "start"
  /\ run = 1
  /\ faults = 0
  /\ calls = <<>>
  /\ stats = Stats0
  /\ libs_left = <<>>
  /\ dup_sets = <<>>
  /\ pending_tag_updates = <<>>
  /\ gi = 0
  /\ cur = Cur0
  /\ probe = Probe0

SpecTags == InitTags /\ [][NextPrefs]_vars

\* ------------------------------------------- runs over two duplicate groups
\* Runs over a catalog of two libraries, three items in the first and the
\* others in the second, the titles such that each library can hold a
\* duplicate group; requests may fail.
OrderItemIds == 1..(MaxItems + 2)

OrderOptionSets ==
  [apply : BOOLEAN, prune : {TRUE}, assume_yes : {TRUE},
   clean_tags_after_prune : {TRUE}, tag_all : BOOLEAN,
   delete_files : {"off", "trash", "remove"},
   allow_roots : {<<RootPath>>},
   path_map : {PathMap}, trash_dir : {TrashDir}, tag : {Marker},
   by : {"title"}, use_ignore_prefix : {TRUE}, case_sensitive : {FALSE},
   preferred_formats : {<<>>}]

InitOrder ==
  /\ opts \in OrderOptionSets
  /\ \E titles \in [OrderItemIds -> {<<"A", " ", "b">>, <<"c">>}] :
       library = [i \in OrderItemIds |-> [MkItem(i, "item") EXCEPT !.title = titles[i]]]
  /\ absItems = OrderItemIds
  /\ absTags = [i \in OrderItemIds |-> TagsOf(i)]
  /\ fs = FsOf(library, opts.path_map)
  /\ now = 1
  /\ pc = "start"
  /\ run = 1
  /\ faults = 0
  /\ calls = <<>>
  /\ stats = Stats0
  /\ libs_left = <<>>
  /\ dup_sets = <<>>
  /\ pending_tag_updates = <<>>
  /\ gi = 0
  /\ cur = Cur0
  /\ probe = Probe0

SpecOrder == InitOrder /\ [][Next]_vars

\* ------------------------------------------------- runs over several catalogs
\* Runs over catalogs whose items differ in title and author, under each of
\* the grouping policies, no request failing.
GroupOptionSets ==
  [apply : {FALSE}, prune : {TRUE}, assume_yes : {TRUE},
   clean_tags_after_prune : {TRUE}, tag_all : {FALSE},
   delete_files : {"off"},
   allow_roots : {<<RootPath>>},
   path_map : {PathMap}, trash_dir : {TrashDir}, tag : {Marker},
   by : {"title", "title+author", "title+series"},
   use_ignore_prefix : {TRUE}, case_sensitive : {FALSE},
   preferred_formats : {<<>>}]

TitleChoices == { <<"A", " ", "b">>, <<"a", " ", " ", "b">>, <<"c">>, <<" ">> }
AuthorChoices == { <<"e">>, <<>> }

InitGroups ==
  /\ opts \in GroupOptionSets
  /\ \E titles \in [ItemIds -> TitleChoices] :
       \E author1 \in AuthorChoices :
         library = [i \in ItemIds |->
                      [MkItem(i, "item") EXCEPT
                         !.title = titles[i],
                         !.authorName = IF i = 1 THEN author1 ELSE <<"e">>]]
  /\ absItems = ItemIds
  /\ absTags = [i \in ItemIds |-> TagsOf(i)]
  /\ fs = FsOf(library, opts.path_map)
  /\ now = 1
  /\ pc = "start"
  /\ run = 1
  /\ faults = 0
  /\ calls = <<>>
  /\ stats = Stats0
  /\ libs_left = <<>>
  /\ dup_sets = <<>>
  /\ pending_tag_updates = <<>>
  /\ gi = 0
  /\ cur = Cur0
  /\ probe = Probe0

SpecGroups == InitGroups /\ [][NextPrefs]_vars

\* --------------------------------------------------- helpers called alone
\* Each helper of the tool called once on arguments of its own, outside of a
\* run of main(): the state of the run stays as it is.
FnOpts ==
  [apply |-> FALSE, prune |-> FALSE, assume_yes |-> FALSE,
   clean_tags_after_prune |-> FALSE, tag_all |-> FALSE, delete_files |-> "off",
   allow_roots |-> <<>>, path_map |-> PathMap, trash_dir |-> TrashDir, tag |-> Marker,
   by |-> "title", use_ignore_prefix |-> TRUE, case_sensitive |-> FALSE,
   preferred_formats |-> <<>>]

\* all sequences over S of length 1..n
SeqsUpTo(S, n) == UNION {[1..k -> S] : k \in 1..n}

\* choose_keeper: lists of items, each known by its position
MaxKeeperList == 3
AddedAtChoices == {0, 10, 20}
KeeperInputs ==
  { [k \in 1..Len(a) |-> [id |-> k, addedAt |-> a[k]]] :
    a \in SeqsUpTo(AddedAtChoices, MaxKeeperList) }

\* dominant_format: items of up to MaxFiles audio files, known by their
\* extension field
MaxFiles == 3
ExtChoices == { <<".", "m", "p", "3">>, <<"M", "4", "B">>, <<"m", "p", "4">> }
AudioFile(ext) ==
  [fileType |-> <<"a", "u", "d", "i", "o">>, ext |-> ext, mimeType |-> <<>>,
   path |-> <<>>, relPath |-> <<>>]
FormatInputs ==
  { [libraryFiles |-> MapSeq(AudioFile, e), tracks |-> <<>>] :
    e \in SeqsUpTo(ExtChoices, MaxFiles) \cup {<<>>} }

\* delete_item_from_abs: status codes of the answer
StatusChoices == {200, 201, 202, 204, 206, 301, 400, 403, 404, 500, 503}

\* _is_within_roots: paths (absolute, relative, through the symbolic link /l,
\* with "..", with a trailing separator) and lists of roots
PathChoices ==
  { <<"/", "d", "/", "b">>, <<"/", "d", "/", "b", "/">>, <<"/", "d", "/", "b", "/", "a">>,
    <<"/", "d", "/", "b", "2", "/", "x">>, <<"/", "d", "/", "b", "x">>,
    <<"/", "l", "/", "a">>, <<"/", "l">>, <<"/", "d", "/", "b", "/", ".", ".", "/", "e">>,
    <<"/", "d">>, <<"/", "e", "/", "a">>, <<"a">>, <<"/", "w", "/", "a">>, <<"/">> }
RootsChoices ==
  { <<>>, << <<"/", "d", "/", "b">> >>, << <<"/", "d", "/", "b", "/">> >>,
    << <<"/", "e">>, <<"/", "d", "/", "b">> >>, << <<"/", "l">> >>,
    << <<"/", "w">> >>, << <<"/">> >>, << <<"/", "d", "/", "b", "/", "a">> >> }
WithinInputs == [p : PathChoices, roots : RootsChoices]

\* _apply_path_map: paths and lists of mappings
MapPathChoices ==
  { <<"/", "c", "/", "b">>, <<"/", "c", "/", "/", "b">>, <<"/", "c", "x", "/", "b">>,
    <<"/", "c", "\\", "b">>, <<"/", "c">>, <<"/", "c", "/">>, <<"/", "e", "/", "a">>,
    <<"c", "/", "b">>, <<>> }
MapChoices ==
  { <<>>,
    << [src |-> <<"/", "c", "/">>, dst |-> <<"/", "h", "/", "a", "/">>],
       [src |-> <<"/", "c", "/">>, dst |-> <<"/", "h", "/", "b", "/">>] >>,
    << [src |-> <<"/", "c">>, dst |-> <<"/", "d">>] >>,
    << [src |-> <<"/", "e">>, dst |-> <<"/", "h">>],
       [src |-> <<"/", "c">>, dst |-> <<"/", "d">>] >>,
    << [src |-> <<"/", "c", "/", "b">>, dst |-> <<"/", "h">>],
       [src |-> <<"/", "c">>, dst |-> <<"/", "d", "/">>] >> }
PathMapInputs == [p : MapPathChoices, path_map : MapChoices]

\* norm: texts of up to MaxText characters, plain, blank, upper-case, and
\* characters whose NFKD form is a space (ACUTE), an upper-case letter
\* (FRAKTUR_H) or a letter with a combining mark (E_ACUTE)
MaxText == 3
NormChars == {"a", "B", " ", "TAB", "ACUTE", "E_ACUTE", "FRAKTUR_H"}
NormInputs == [s : SeqsUpTo(NormChars, MaxText) \cup {<<>>}, case_sensitive : BOOLEAN]

\* make_key: two items under a policy that joins two fields
KeyTitleChoices == { <<"a">>, <<"A">>, <<"a", "|", "|", "b">> }
KeyFieldChoices == { <<>>, <<"c">>, <<"b", "|", "|", "c">> }
KeyItems ==
  [title : KeyTitleChoices, titleIgnorePrefix : {<<>>},
   authorName : KeyFieldChoices, seriesName : KeyFieldChoices]
KeyInputs ==
  [a : KeyItems, b : KeyItems, by : {"title+author", "title+series"},
   use_ignore_prefix : {FALSE}, case_sensitive : BOOLEAN]

ProbeInputs ==
  {[fn |-> "choose_keeper", args |-> x, outs |-> <<>>] : x \in KeeperInputs}
  \cup {[fn |-> "dominant_format", args |-> x, outs |-> <<>>] : x \in FormatInputs}
  \cup {[fn |-> "delete_item_from_abs", args |-> x, outs |-> <<>>] : x \in StatusChoices}
  \cup {[fn |-> "_is_within_roots", args |-> x, outs |-> <<>>] : x \in WithinInputs}
  \cup {[fn |-> "_apply_path_map", args |-> x, outs |-> <<>>] : x \in PathMapInputs}
  \cup {[fn |-> "norm", args |-> x, outs |-> <<>>] : x \in NormInputs}
  \cup {[fn |-> "make_key", args |-> x, outs |-> <<>>] : x \in KeyInputs}

InitFn ==
  /\ probe \in ProbeInputs
  /\ opts = FnOpts
  /\ library = [i \in ItemIds |-> MkItem(i, "item")]
  /\ absItems = ItemIds
  /\ absTags = [i \in ItemIds |-> TagsOf(i)]
  /\ fs = FsOf(library, opts.path_map)
  /\ now = 1
  /\ pc = "start"
  /\ run = 1
  /\ faults = 0
  /\ calls = <<>>
  /\ stats = Stats0
  /\ libs_left = <<>>
  /\ dup_sets = <<>>
  /\ pending_tag_updates = <<>>
  /\ gi = 0
  /\ cur = Cur0

\* the helper fn was called and returned ret
Returned(fn, ret) ==
  /\ probe.fn = fn
  /\ probe.outs = <<>>
  /\ probe' = [probe EXCEPT !.outs = <<ret>>]
  /\ UNCHANGED << opts, library, env, now, pc, run, faults, calls, locals >>

CallChooseKeeper ==
  /\ probe.fn = "choose_keeper"
  /\ Returned("choose_keeper", choose_keeper(probe.args))

CallDominantFormat ==
  /\ probe.fn = "dominant_format"
  /\ Returned("dominant_format", dominant_format(probe.args))

CallDeleteItem ==
  /\ probe.fn = "delete_item_from_abs"
  /\ Returned("delete_item_from_abs", delete_item_from_abs(probe.args))

CallIsWithinRoots ==
  /\ probe.fn = "_is_within_roots"
  /\ Returned("_is_within_roots", _is_within_roots(probe.args.p, probe.args.roots))

CallApplyPathMap ==
  /\ probe.fn = "_apply_path_map"
  /\ Returned("_apply_path_map", _apply_path_map(probe.args.p, probe.args.path_map))

\* norm called on the text, then on what it returned
CallNorm ==
  /\ probe.fn = "norm"
  /\ Len(probe.outs) < 2
  /\ probe' = [probe EXCEPT !.outs =
                 Append(@, norm(IF @ = <<>> THEN probe.args.s ELSE @[1],
                                probe.args.case_sensitive))]
  /\ UNCHANGED << opts, library, env, now, pc, run, faults, calls, locals >>

\* make_key called on each of the two items
CallMakeKey ==
  /\ probe.fn = "make_key"
  /\ \E x \in {probe.args} :
       Returned("make_key",
                << make_key(x.a, x.by, x.use_ignore_prefix, x.case_sensitive),
                   make_key(x.b, x.by, x.use_ignore_prefix, x.case_sensitive) >>)

NextFn ==
  \/ CallChooseKeeper
  \/ CallDominantFormat
  \/ CallDeleteItem
  \/ CallIsWithinRoots
  \/ CallApplyPathMap
  \/ CallNorm
  \/ CallMakeKey

SpecFn == InitFn /\ [][NextFn]_vars

\* ------------------------------------------ runs over items of several formats
\* Simulated runs of the prune phase, interactive or not, over items with an
\* mp3 file, an m4b file or no audio file at all, no request failing.
FormatOptionSets ==
  [apply : {FALSE}, prune : {TRUE}, assume_yes : BOOLEAN,
   clean_tags_after_prune : {TRUE}, tag_all : {FALSE},
   delete_files : {"off"},
   allow_roots : {<<RootPath>>},
   path_map : {PathMap}, trash_dir : {TrashDir}, tag : {Marker},
   by : {"title"}, use_ignore_prefix : {TRUE}, case_sensitive : {FALSE},
   preferred_formats : {<<>>, <<Fm4a, Funknown>>}]

FileListChoices ==
  { <<>>, << AudioFile(<<".", "m", "p", "3">>) >>, << AudioFile(<<"M", "4", "B">>) >> }

InitFormats ==
  /\ opts \in FormatOptionSets
  /\ \E files \in [ItemIds -> FileListChoices] :
       library = [i \in ItemIds |-> [MkItem(i, "item") EXCEPT !.libraryFiles = files[i]]]
  /\ absItems = ItemIds
  /\ absTags = [i \in ItemIds |-> TagsOf(i)]
  /\ fs = FsOf(library, opts.path_map)
  /\ now = 1
  /\ pc = "start"
  /\ run = 1
  /\ faults = 0
  /\ calls = <<>>
  /\ stats = Stats0
  /\ libs_left = <<>>
  /\ dup_sets = <<>>
  /\ pending_tag_updates = <<>>
  /\ gi = 0
  /\ cur = Cur0
  /\ probe = Probe0

SpecFormats == InitFormats /\ [][NextPrefs]_vars

\* ------------------------------------------ runs over items that share folders
\* Applying runs that trash or remove files, over items whose catalog path
\* is a folder of their own, the folder of the first item, or the library
\* folder above them, no request failing.
FolderOptionSets ==
  [apply : {TRUE}, prune : {TRUE}, assume_yes : {TRUE},
   clean_tags_after_prune : {TRUE}, tag_all : {FALSE},
   delete_files : {"trash", "remove"},
   allow_roots : {<<RootPath>>},
   path_map : {PathMap}, trash_dir : {TrashDir}, tag : {Marker},
   by : {"title"}, use_ignore_prefix : {TRUE}, case_sensitive : {FALSE},
   preferred_formats : {<<>>}]

ItemPathChoices(i) ==
  { <<"/", "c", "/", "b", "/", DirChar(i)>>, <<"/", "c", "/", "b", "/", "a">>, <<"/", "c", "/", "b">> }

InitFolders ==
  /\ opts \in FolderOptionSets
  /\ \E paths \in {f \in [ItemIds -> UNION {ItemPathChoices(i) : i \in ItemIds}] :
                     \A i \in ItemIds : f[i] \in ItemPathChoices(i)} :
       library = [i \in ItemIds |-> [MkItem(i, "item") EXCEPT !.path = paths[i]]]
  /\ absItems = ItemIds
  /\ absTags = [i \in ItemIds |-> TagsOf(i)]
  /\ fs = FsOf(library, opts.path_map)
  /\ now = 1
  /\ pc = "start"
  /\ run = 1
  /\ faults = 0
  /\ calls = <<>>
  /\ stats = Stats0
  /\ libs_left = <<>>
  /\ dup_sets = <<>>
  /\ pending_tag_updates = <<>>
  /\ gi = 0
  /\ cur = Cur0
  /\ probe = Probe0

SpecFolders == InitFolders /\ [][NextPrefs]_vars

\* ------------------------------------------------ moves into the trash
\* _move_to_trash called on its own, up to MaxMoves times in a row, on
\* folders of three allow-roots, some of them of the same name below their
\* root, the trash empty or holding an entry of that name already; the
\* clock may advance between two calls.
MaxMoves == 3

TrashRoots == << <<"/", "d", "/", "b">>, <<"/", "d", "/", "e">>, <<"/", "d", "/", "f">> >>

TrashSrcChoices ==
  { <<"/", "d", "/", "b", "/", "a">>, <<"/", "d", "/", "e", "/", "a">>,
    <<"/", "d", "/", "f", "/", "a">>, <<"/", "d", "/", "b", "/", "c">> }

TrashBefore == { {}, { TrashDir \o <<"/", "a">> } }

InitTrash ==
  /\ \E srcs \in SeqsUpTo(TrashSrcChoices, MaxMoves) :
       \E held \in TrashBefore :
         /\ probe = [fn |-> "_move_to_trash",
                     args |-> [srcs |-> srcs, trash_root |-> TrashDir, roots |-> TrashRoots],
                     outs |-> <<>>]
         /\ fs = {realpath(srcs[i]) : i \in 1..Len(srcs)} \cup held
  /\ opts = FnOpts
  /\ library = [i \in ItemIds |-> MkItem(i, "item")]
  /\ absItems = ItemIds
  /\ absTags = [i \in ItemIds |-> TagsOf(i)]
  /\ now = 1
  /\ pc = "start"
  /\ run = 1
  /\ faults = 0
  /\ calls = <<>>
  /\ stats = Stats0
  /\ libs_left = <<>>
  /\ dup_sets = <<>>
  /\ pending_tag_updates = <<>>
  /\ gi = 0
  /\ cur = Cur0

\* _move_to_trash on the next of the folders; what it returned is kept with
\* the filesystem before and after the call
CallMoveToTrash ==
  /\ probe.fn = "_move_to_trash"
  /\ Len(probe.outs) < Len(probe.args.srcs)
  /\ \E src \in {probe.args.srcs[Len(probe.outs) + 1]} :
       \E mv \in {_move_to_trash(fs, src, probe.args.trash_root, probe.args.roots, now)} :
         /\ fs' = mv.fs
         /\ probe' = [probe EXCEPT !.outs =
                        Append(@, [src |-> src, ok |-> mv.ok, dest |-> mv.dest,
                                   before |-> fs, after |-> mv.fs])]
  /\ UNCHANGED << opts, library, absItems, absTags, now, pc, run, faults, calls, locals >>

\* a second passes between two calls
ClockTick ==
  /\ probe.fn = "_move_to_trash"
  /\ probe.outs # <<>>
  /\ Len(probe.outs) < Len(probe.args.srcs)
  /\ now = 1
  /\ now' = now + 1
  /\ UNCHANGED << probe, opts, library, absItems, absTags, fs, pc, run, faults, calls, locals >>

NextTrash ==
  \/ CallMoveToTrash
  \/ ClockTick

SpecTrash == InitTrash /\ [][NextTrash]_vars

\* ============================================================= properties
\* What the properties speak of, stated without the operators of the run.

EntryOf(g) == dup_sets[g].entry
MembersOf(g) == dup_sets[g].group

\* the prune decision of group g was taken
Decided(g) == EntryOf(g).keep_format # <<>>

\* index of the earliest-added member of group g among those of the format
\* kept, the first of them in group order on a tie
KeeperIndex(g) ==
  One({ CHOOSE k \in 1..Len(fmts) :
          /\ fmts[k] = EntryOf(g).keep_format
          /\ \A j \in 1..Len(fmts) :
               fmts[j] = EntryOf(g).keep_format =>
                 \/ MembersOf(g)[k].addedAt < MembersOf(g)[j].addedAt
                 \/ MembersOf(g)[k].addedAt = MembersOf(g)[j].addedAt /\ k <= j :
        fmts \in {MapSeq(dominant_format, MembersOf(g))} })

KeeperOf(g) == MembersOf(g)[KeeperIndex(g)]

\* the members of group g other than its keeper, in group order
RemovalsOf(g) ==
  One({ SelectSeq(MembersOf(g), LAMBDA it : it.id # kid) : kid \in {KeeperOf(g).id} })

\* how many removal candidates of group g went through the file step, and
\* through the catalog step (in a behaviour that was not cut by an exception)
FileStepsDone(g) ==
  IF ~Decided(g) THEN 0
  ELSE IF g = gi /\ pc = "files" THEN cur.ri - 1
  ELSE Len(MembersOf(g)) - 1

AbsStepsDone(g) ==
  IF ~Decided(g) THEN 0
  ELSE IF g = gi /\ pc = "files" THEN 0
  ELSE IF g = gi /\ pc = "abs" THEN cur.ri - 1
  ELSE Len(MembersOf(g)) - 1

Running == pc \notin {"aborted", "exit"}

\* the remapped folder of an item lies in, or is, one of the allow-roots
InsideRoots(p) ==
  \E i \in 1..Len(opts.allow_roots) : IsPrefixSeq(PathComps(opts.allow_roots[i]), PathComps(p))

HasFolder(it) == _item_folder_from_files(it) # <<>>

OutsideRoots(it) ==
  HasFolder(it) /\ opts.allow_roots # <<>> /\ ~InsideRoots(MappedFolder(opts, it))

FileCalls == SelectSeq(calls, LAMBDA c : c.op \in {"move", "remove"})
AbsCalls == SelectSeq(calls, LAMBDA c : c.op = "abs_delete")
TagCalls == SelectSeq(calls, LAMBDA c : c.op = "batch_update")

CalledFor(cs, id) == \E i \in 1..Len(cs) : cs[i].id = id

\* the candidates of group g, among the first n, that satisfy P
CountFirst(g, n, P(_)) ==
  IF n = 0 THEN 0
  ELSE One({ Cardinality({j \in 1..n : P(rs[j])}) : rs \in {RemovalsOf(g)} })

\* ---------------------------------------------------------------------- C1
\* the file action a simulated run would take for a candidate
WouldAct(it) ==
  /\ HasFolder(it)
  /\ opts.delete_files # "off"
  /\ opts.allow_roots = <<>> \/ InsideRoots(MappedFolder(opts, it))

\* C1: with apply disabled, whatever the other options and the items, the
\* run issues no file move, no file delete, no catalog deletion and no tag
\* update: catalog and filesystem stay as they were; the intended file
\* actions are only counted in the group's file_moved / file_deleted.
C1_SimulateIssuesNothing ==
  ~opts.apply =>
    /\ calls = <<>>
    /\ pending_tag_updates = <<>>
    /\ absItems = ItemIds
    /\ absTags = [i \in ItemIds |-> TagsOf(i)]
    /\ fs = FsOf(library, opts.path_map)
    /\ stats.files_moved = 0 /\ stats.files_deleted = 0 /\ stats.abs_deleted = 0
    /\ \A g \in 1..Len(dup_sets) :
         /\ EntryOf(g).dry_run
         /\ EntryOf(g).abs_deleted = 0
         /\ EntryOf(g).file_moved =
              IF opts.delete_files = "trash"
              THEN CountFirst(g, FileStepsDone(g), WouldAct) ELSE 0
         /\ EntryOf(g).file_deleted =
              IF opts.delete_files = "remove"
              THEN CountFirst(g, FileStepsDone(g), WouldAct) ELSE 0

\* a simulated prune that reached the summary with an intended move counted
C1_Witness ==
  /\ ~opts.apply /\ opts.prune /\ opts.delete_files = "trash"
  /\ opts.clean_tags_after_prune /\ opts.assume_yes
  /\ pc = "done"
  /\ \E g \in 1..Len(dup_sets) : EntryOf(g).file_moved > 0 /\ EntryOf(g).kept_tag_removed

\* ---------------------------------------------------------------------- C2
\* C2: with an empty allow-root list no trash-move and no permanent delete
\* is performed on any removal candidate, whatever the file-action mode and
\* the value of apply.
C2_EmptyRootsNoFileOps == opts.allow_roots = <<>> => FileCalls = <<>>

\* ---------------------------------------------------------------------- C3
ItemOfId(id) == library[CHOOSE i \in 1..Len(library) : library[i].id = id]

IdsOf(items) == {items[i].id : i \in 1..Len(items)}

\* the folder of the item still exists as the behaviour found it
Untouched(it) == realpath(MappedFolder(opts, it)) \in fs

RECURSIVE SumSeq(_)
SumSeq(ns) == IF ns = <<>> THEN 0 ELSE Head(ns) + SumSeq(Tail(ns))

SumOver(n, F(_)) == SumSeq([g \in 1..n |-> F(g)])

NoFolder(it) == ~HasFolder(it)

\* C3: a trash-move or permanent delete is performed, on the remapped
\* folder of a removal candidate, only if the mode is trash or remove, apply
\* is on and (the allow-root list not being empty) the remapped path is in
\* or equal to an allow-root; with the mode trash or remove, a candidate
\* whose remapped path is outside all allow-roots keeps its files, is
\* counted in file_skipped and files_skipped_outside_roots and is not
\* counted among the errors.
C3_FileOpsGated ==
  /\ \A i \in 1..Len(calls) :
       calls[i].op \in {"move", "remove"} =>
         /\ opts.apply
         /\ opts.delete_files = (IF calls[i].op = "move" THEN "trash" ELSE "remove")
         /\ opts.allow_roots # <<>> => InsideRoots(calls[i].path)
         /\ calls[i].id \in IdsOf(RemovalsOf(calls[i].group))
         /\ calls[i].path = MappedFolder(opts, ItemOfId(calls[i].id))
  /\ (Running /\ opts.delete_files # "off") =>
       /\ \A g \in 1..Len(dup_sets) :
            /\ EntryOf(g).file_skipped = CountFirst(g, FileStepsDone(g), OutsideRoots)
            /\ FileStepsDone(g) > 0 =>
                 \A rs \in {RemovalsOf(g)} :
                   \A j \in 1..FileStepsDone(g) :
                     OutsideRoots(rs[j]) =>
                       /\ ~CalledFor(FileCalls, rs[j].id)
                       /\ Untouched(rs[j])
       /\ stats.files_skipped_outside_roots =
            SumOver(Len(dup_sets), LAMBDA g : CountFirst(g, FileStepsDone(g), OutsideRoots))
       /\ stats.errors <= faults +
            SumOver(Len(dup_sets), LAMBDA g : CountFirst(g, FileStepsDone(g), NoFolder))

\* one candidate of a group was moved to the trash, another one skipped
C3_Witness ==
  /\ opts.apply /\ opts.delete_files = "trash" /\ opts.allow_roots # <<>>
  /\ pc = "done" /\ faults = 0
  /\ \E g \in 1..Len(dup_sets) : EntryOf(g).file_skipped = 1 /\ EntryOf(g).file_moved = 1
  /\ stats.errors = 0

\* ---------------------------------------------------------------------- C4
\* C4: in the prune phase the keeper of a group is the earliest-added member
\* of the chosen format, the removal set is the group without that keeper
\* (to_delete_count = size of the group - 1), and no catalog deletion is
\* ever requested for the keeper's id.
C4_KeeperAndRemovals ==
  /\ pc \in {"files", "abs", "clean"} =>
       /\ cur.keeper = KeeperOf(gi)
       /\ dominant_format(cur.keeper) = cur.chosen_fmt
       /\ IdsOf(cur.to_remove) = IdsOf(MembersOf(gi)) \ {cur.keeper.id}
       /\ Len(cur.to_remove) = Len(MembersOf(gi)) - 1
  /\ \A g \in 1..Len(dup_sets) :
       Decided(g) => EntryOf(g).to_delete_count = Len(MembersOf(g)) - 1
  /\ \A i \in 1..Len(calls) :
       calls[i].op = "abs_delete" =>
         /\ calls[i].id # KeeperOf(calls[i].group).id
         /\ calls[i].id \in IdsOf(MembersOf(calls[i].group))

\* a group of three whose keeper is not its earliest-added member, both
\* other members deleted from the catalog
C4_Witness ==
  /\ pc = "clean"
  /\ Len(MembersOf(gi)) = 3
  /\ cur.keeper.id # EntryOf(gi).keeper_id
  /\ Len(AbsCalls) = 2

\* ---------------------------------------------------------------------- C5
\* C5: a removal candidate whose remapped folder is outside all allow-roots
\* keeps its files and, with apply on, its catalog deletion is requested
\* all the same.
C5_SkipStillDeleted ==
  Running =>
    \A g \in 1..Len(dup_sets) :
      AbsStepsDone(g) > 0 =>
        \A rs \in {RemovalsOf(g)} :
          \A j \in 1..AbsStepsDone(g) :
            OutsideRoots(rs[j]) =>
              /\ Untouched(rs[j])
              /\ ~CalledFor(FileCalls, rs[j].id)
              /\ opts.apply => CalledFor(AbsCalls, rs[j].id)

\* a candidate skipped as outside the roots is gone from the catalog, its
\* folder still there
C5_Witness ==
  /\ opts.apply /\ opts.delete_files = "remove" /\ pc = "done"
  /\ \E g \in {h \in 1..Len(dup_sets) : Decided(h)} :
       \E rs \in {RemovalsOf(g)} :
         \E j \in 1..Len(rs) :
           /\ OutsideRoots(rs[j])
           /\ EntryOf(g).file_skipped > 0
           /\ rs[j].id \notin absItems
           /\ Untouched(rs[j])

\* ---------------------------------------------------------------------- C6
\* the file step skipped the candidate as outside the allow-roots
Skipped(it) == opts.delete_files # "off" /\ OutsideRoots(it)

\* C6 as stated: the catalog deletion is requested for exactly the removal
\* candidates whose file disposition was not "skip".
C6_DeletedIffNotSkipped ==
  (Running /\ opts.apply) =>
    \A g \in 1..Len(dup_sets) :
      AbsStepsDone(g) > 0 =>
        \A rs \in {RemovalsOf(g)} :
          \A j \in 1..AbsStepsDone(g) :
            CalledFor(AbsCalls, rs[j].id) <=> ~Skipped(rs[j])

\* C6 amended: with apply on, the catalog deletion is requested for every
\* removal candidate of the group, whatever its file disposition, the
\* skipped ones included; with apply off it is requested for none.
C6_EveryCandidateDeleted ==
  Running =>
    \A g \in 1..Len(dup_sets) :
      {AbsCalls[i].id : i \in {k \in 1..Len(AbsCalls) : AbsCalls[k].group = g}} =
        IF opts.apply /\ AbsStepsDone(g) > 0
        THEN One({ {rs[j].id : j \in 1..AbsStepsDone(g)} : rs \in {RemovalsOf(g)} })
        ELSE {}

\* both candidates of a group had their deletion requested, one of them
\* skipped by the file step
C6_Witness ==
  /\ opts.apply /\ pc = "clean" /\ faults = 0
  /\ EntryOf(gi).file_skipped = 1
  /\ EntryOf(gi).abs_deleted = 2
  /\ Len(AbsCalls) = 2

\* ---------------------------------------------------------------------- C7
\* C7 as stated: for a candidate with no derivable folder both the file
\* operation and the catalog deletion are skipped.
C7_NoFolderNothingDone ==
  Running =>
    \A g \in 1..Len(dup_sets) :
      AbsStepsDone(g) > 0 =>
        \A rs \in {RemovalsOf(g)} :
          \A j \in 1..AbsStepsDone(g) :
            NoFolder(rs[j]) =>
              /\ ~CalledFor(FileCalls, rs[j].id)
              /\ ~CalledFor(AbsCalls, rs[j].id)

\* the file step acts on the candidate when apply is on
ActsOn(it) == opts.apply /\ WouldAct(it)

\* C7 amended: a candidate with no derivable folder is counted as an error
\* and gets no file operation; its catalog deletion is still requested when
\* apply is on; the other candidates of the group are processed as usual.
C7_NoFolderCountedFileOpSkipped ==
  Running =>
    /\ stats.errors >=
         SumOver(Len(dup_sets), LAMBDA g : CountFirst(g, FileStepsDone(g), NoFolder))
    /\ \A g \in 1..Len(dup_sets) :
         FileStepsDone(g) > 0 =>
           \A rs \in {RemovalsOf(g)} :
             /\ \A j \in 1..FileStepsDone(g) :
                  /\ NoFolder(rs[j]) => ~CalledFor(FileCalls, rs[j].id)
                  /\ ActsOn(rs[j]) => CalledFor(FileCalls, rs[j].id)
             /\ \A j \in 1..AbsStepsDone(g) :
                  (NoFolder(rs[j]) /\ opts.apply) => CalledFor(AbsCalls, rs[j].id)

\* the first candidate has no folder, the second had its folder removed
C7_Witness ==
  /\ opts.apply /\ opts.delete_files = "remove" /\ pc = "done" /\ faults = 0
  /\ \E g \in {h \in 1..Len(dup_sets) : Decided(h)} :
       /\ Len(MembersOf(g)) = 3
       /\ \E rs \in {RemovalsOf(g)} :
            /\ NoFolder(rs[1])
            /\ CalledFor(FileCalls, rs[2].id)
            /\ rs[1].id \notin absItems
       /\ EntryOf(g).file_deleted = 1
  /\ stats.errors = 1

\* ---------------------------------------------------------------------- C8
\* C8: no failure of a file move, a file delete or a catalog deletion of an
\* item, the failures raised while the trash destination is prepared or the
\* catalog is contacted included, ends the run: the run is never cut short
\* by the file operation or the catalog deletion of a removal candidate.
C8_NeverAborts ==
  pc = "aborted" =>
    \/ calls = <<>>
    \/ calls[Len(calls)].op \notin {"move", "remove", "abs_delete"}

\* --------------------------------------------------------------------- C10
\* the updates of the tag calls of the prune phase for group g
CleanCallsOf(g) ==
  FlattenSeq(MapSeq(LAMBDA c : c.updates,
                    SelectSeq(TagCalls, LAMBDA c : c.phase = "prune" /\ c.group = g)))

\* C10: with clean_tags_after_prune and assume_yes both on, once an applying
\* run has pruned a group, a tag update without the marker was requested for
\* its keeper, and at the end of the run the keeper's tags in the catalog do
\* not hold the marker, even when the tagging phase of the run added it;
\* with either flag off the prune phase issues no tag update.
C10_KeeperMarkerStripped ==
  /\ ~(opts.clean_tags_after_prune /\ opts.assume_yes) =>
       \A i \in 1..Len(TagCalls) : TagCalls[i].phase # "prune"
  /\ (opts.clean_tags_after_prune /\ opts.assume_yes /\ opts.apply /\ Running) =>
       \A g \in 1..Len(dup_sets) :
         (Decided(g) /\ (g # gi \/ pc \in {"summary", "done"}) /\ g <= gi) =>
           /\ \E i \in 1..Len(CleanCallsOf(g)) :
                /\ CleanCallsOf(g)[i].id = KeeperOf(g).id
                /\ ~InSeq(Marker, CleanCallsOf(g)[i].tags)
           /\ pc = "done" => ~InSeq(Marker, absTags[KeeperOf(g).id])

\* the run ended, the tagging phase had tagged the item the prune phase kept,
\* and the catalog holds the keeper without the marker
C10_Witness ==
  /\ pc = "done" /\ opts.apply /\ opts.clean_tags_after_prune /\ opts.assume_yes
  /\ \E g \in {h \in 1..Len(dup_sets) : Decided(h)} :
       /\ KeeperOf(g).id # EntryOf(g).keeper_id
       /\ ~InSeq(Marker, KeeperOf(g).tags)
       /\ EntryOf(g).tag_added > 0
       /\ \E i \in 1..Len(TagCalls) :
            /\ TagCalls[i].phase = "tag"
            /\ \E k \in 1..Len(TagCalls[i].updates) :
                 /\ TagCalls[i].updates[k].id = KeeperOf(g).id
                 /\ InSeq(Marker, TagCalls[i].updates[k].tags)
       /\ ~InSeq(Marker, absTags[KeeperOf(g).id])
       /\ CleanCallsOf(g) # <<>>

\* ---------------------------------------------------------------------- C9
\* the duplicate groups of the catalog as it was before the first run
InitialGroups ==
  FlattenSeq(MapSeq(LAMBDA lib : GroupsOf(SelectSeq(library, LAMBDA it : it.libraryId = lib), opts),
                    Libraries))

\* the members of a group the catalog still holds
HeldOf(group) == {group[k].id : k \in 1..Len(group)} \cap absItems

\* C9: an applying run with prune, assume_yes and clean_tags_after_prune that
\* was interrupted in the prune phase and followed by a complete run with
\* the same options, no request of which failed, leaves every duplicate
\* group reduced to one item that does not carry the marker.
C9_RerunRecovers ==
  (pc = "done" /\ run = 2 /\ faults = 0) =>
    \A g \in 1..Len(InitialGroups) :
      /\ Cardinality(HeldOf(InitialGroups[g])) = 1
      /\ \A id \in HeldOf(InitialGroups[g]) : ~InSeq(Marker, absTags[id])

\* --------------------------------------------------------------------- C11
\* index of the earliest-added member of group g, the first of them in group
\* order on a tie
EarliestIndex(g) ==
  CHOOSE k \in 1..Len(MembersOf(g)) :
    \A j \in 1..Len(MembersOf(g)) :
      \/ MembersOf(g)[k].addedAt < MembersOf(g)[j].addedAt
      \/ MembersOf(g)[k].addedAt = MembersOf(g)[j].addedAt /\ k <= j

\* the members of group g the tagging phase looks at: all but the
\* earliest-added one, or all of them with tag_all
EligibleOf(g) ==
  {k \in 1..Len(MembersOf(g)) : opts.tag_all \/ k # EarliestIndex(g)}

\* those of them that do not carry the marker yet, and those that do
ToTagOf(g) == {k \in EligibleOf(g) : ~InSeq(Marker, MembersOf(g)[k].tags)}
TaggedOf(g) == {k \in EligibleOf(g) : InSeq(Marker, MembersOf(g)[k].tags)}

\* the tag updates the tagging phase has to request, as a set
UpdatesDue ==
  UNION { { [id |-> MembersOf(g)[k].id, tags |-> Append(MembersOf(g)[k].tags, Marker)] :
            k \in ToTagOf(g) } : g \in 1..Len(dup_sets) }

\* C11: in the tagging phase every member of a duplicate group but its
\* earliest-added keeper (the keeper too with tag_all) gets an update that
\* adds the marker if and only if it does not carry it yet (the update is
\* requested in an applying run and only counted in a simulated one); the
\* members that already carry it get no update and are counted apart, so
\* that tag_added + tag_skipped is the number of eligible members.
C11_TaggingPhase ==
  /\ \A g \in 1..Len(dup_sets) :
       /\ EntryOf(g).keeper_id = MembersOf(g)[EarliestIndex(g)].id
       /\ EntryOf(g).tag_added = Cardinality(ToTagOf(g))
       /\ EntryOf(g).tag_skipped = Cardinality(TaggedOf(g))
       /\ EntryOf(g).tag_added + EntryOf(g).tag_skipped = Cardinality(EligibleOf(g))
  /\ RangeOf(pending_tag_updates) = (IF opts.apply THEN UpdatesDue ELSE {})
  /\ Len(pending_tag_updates) = Cardinality(RangeOf(pending_tag_updates))
  /\ \A i \in 1..Len(TagCalls) :
       TagCalls[i].phase = "tag" => TagCalls[i].updates = pending_tag_updates

\* the tagging phase of an applying run sent one update for a group in which
\* another member carried the marker already, the keeper left alone
C11_Witness ==
  /\ opts.apply /\ ~opts.tag_all /\ pc = "summary"
  /\ \E g \in 1..Len(dup_sets) :
       /\ EntryOf(g).tag_added = 1 /\ EntryOf(g).tag_skipped = 1
       /\ Len(MembersOf(g)) = 3
  /\ \E i \in 1..Len(TagCalls) : TagCalls[i].phase = "tag" /\ Len(TagCalls[i].updates) = 1
  /\ \E id \in ItemIds : ~InSeq(Marker, TagsOf(id)) /\ InSeq(Marker, absTags[id])

\* --------------------------------------------------------------------- C12
\* the format a non-interactive run has to keep for the formats `have` of a
\* group: the first of the preference list that is among them, else the
\* least of them in lexicographic order
ExpectedFormat(prefs, have) ==
  IF \E i \in 1..Len(prefs) : prefs[i] \in have
  THEN prefs[CHOOSE i \in 1..Len(prefs) :
               prefs[i] \in have /\ \A j \in 1..(i - 1) : prefs[j] \notin have]
  ELSE CHOOSE f \in have : \A h \in have \ {f} : TextLess(f, h)

\* C12: with assume_yes the format kept for a group is the first format of
\* the preference list that is among the dominant formats of the group,
\* and, none of them being there, the lexicographically first format of the
\* group; the members of the other formats are marked for removal.
C12_AutoFormatChoice ==
  opts.assume_yes =>
    \A g \in 1..Len(dup_sets) :
      Decided(g) =>
        \A have \in {FormatsOf(MembersOf(g))} :
          /\ EntryOf(g).keep_format = ExpectedFormat(Preferred(opts), have)
          /\ (g = gi /\ pc \in {"files", "abs", "clean"}) =>
               /\ dominant_format(cur.keeper) = EntryOf(g).keep_format
               /\ \A k \in 1..Len(MembersOf(g)) :
                    dominant_format(MembersOf(g)[k]) # EntryOf(g).keep_format =>
                      InSeq(MembersOf(g)[k], cur.to_remove)

\* under the preference mp3, m4b the mp3 copy added first is kept and the m4b
\* copy is among the removals
C12_Witness ==
  /\ opts.assume_yes /\ opts.preferred_formats = <<Fmp3, Fm4b>>
  /\ pc = "clean"
  /\ EntryOf(gi).keep_format = Fmp3
  /\ dominant_format(cur.keeper) = Fmp3
  /\ \E k \in 1..Len(cur.to_remove) : dominant_format(cur.to_remove[k]) = Fm4b

\* --------------------------------------------------------------------- C13
\* C13: choose_keeper of a non-empty list returns an item of the list whose
\* addedAt is minimal and, among the items tied for it, the one that comes
\* first in the list.
C13_ChooseKeeperEarliestFirst ==
  (probe.fn = "choose_keeper" /\ probe.outs # <<>>) =>
    \E i \in 1..Len(probe.args) :
      /\ probe.outs[1] = probe.args[i]
      /\ \A j \in 1..Len(probe.args) : probe.args[i].addedAt <= probe.args[j].addedAt
      /\ \A j \in 1..(i - 1) : probe.args[j].addedAt # probe.args[i].addedAt

\* of three items, the last two tied for the least addedAt, the second one
\* was returned
C13_Witness ==
  /\ probe.fn = "choose_keeper" /\ probe.outs # <<>>
  /\ Len(probe.args) = 3
  /\ probe.args[2].addedAt = probe.args[3].addedAt
  /\ probe.args[2].addedAt < probe.args[1].addedAt
  /\ probe.outs[1].id = 2

\* --------------------------------------------------------------------- C14
\* the grouping key of an item under the policy of the run
KeyOf(it) == make_key(it, opts.by, opts.use_ignore_prefix, opts.case_sensitive)

\* C14: whatever the items and the grouping policy, every duplicate group
\* handed to the tagging and prune phases has two members or more, all of
\* its members have the same grouping key under the policy of the run, and
\* that key is not the empty text.
C14_GroupsWellFormed ==
  \A g \in 1..Len(dup_sets) :
    /\ Len(MembersOf(g)) >= 2
    /\ \E key \in {KeyOf(MembersOf(g)[1])} :
         /\ key # <<>>
         /\ \A k \in 1..Len(MembersOf(g)) : KeyOf(MembersOf(g)[k]) = key

\* a group of two was handed on, the third item of the library left out for
\* its empty key
C14_Witness ==
  /\ pc = "done"
  /\ Len(dup_sets) = 1
  /\ Len(MembersOf(1)) = 2
  /\ \E i \in 1..Len(library) : library[i].libraryId = "L1" /\ KeyOf(library[i]) = <<>>

\* --------------------------------------------------------------------- C15
\* C15: dominant_format of an item is the most frequent of the normalised
\* format tokens collected from its audio files, the first-occurring one of
\* those tied for the highest count, and "unknown" when there is no token:
\* files of extension mp3, m4b, m4b make an m4b item.
C15_DominantIsMostFrequent ==
  (probe.fn = "dominant_format" /\ probe.outs # <<>>) =>
    \A toks \in {format_tokens(probe.args)} :
      probe.outs[1] = IF toks = <<>> THEN Funknown ELSE MostCommon(toks)

\* --------------------------------------------------------------------- C16
\* C16: the deletion of a catalog item reports success for every status 2xx
\* and for 404, and a failure for every other status.
C16_DeleteSuccessOn2xxAnd404 ==
  (probe.fn = "delete_item_from_abs" /\ probe.outs # <<>>) =>
    (probe.outs[1] <=> (probe.args \in 200..299 \/ probe.args = 404))

MatchesOf(p, m) == {i \in 1..Len(m) : IsPrefixSeq(m[i].src, p)}

\* the rest of p after its first n characters, leading separators dropped
SuffixAfter(p, n) ==
  LET rest == SubSeq(p, n + 1, Len(p))
      lead == {k \in 0..Len(rest) : \A j \in 1..k : rest[j] \in {"/", "\\"}}
      k == CHOOSE k \in lead : \A h \in lead : h <= k
  IN SubSeq(rest, k + 1, Len(rest))

\* the destination with its separator: one is put in when it has none
DstPrefix(dst) == IF dst = <<>> \/ dst[Len(dst)] = "/" THEN dst ELSE dst \o <<"/">>

\* C18: _apply_path_map applies the first mapping of the list whose source
\* is a prefix of the path, and no other: the result is the destination of
\* that mapping (closed by a separator) followed by the rest of the path
\* without its leading separators; a path no mapping matches is returned as
\* it is; with the mappings /c/ -> /h/a/ and /c/ -> /h/b/ the path /c/b
\* becomes /h/a/b.
C18_FirstMappingOnly ==
  (probe.fn = "_apply_path_map" /\ probe.outs # <<>>) =>
    \A ms \in {MatchesOf(probe.args.p, probe.args.path_map)} :
      probe.outs[1] =
        IF ms = {} THEN probe.args.p
        ELSE LET i == CHOOSE i \in ms : \A j \in ms : i <= j
             IN DstPrefix(probe.args.path_map[i].dst)
                  \o SuffixAfter(probe.args.p, Len(probe.args.path_map[i].src))

\* two mappings of the same source: /c/b went to the destination of the first
C18_Witness ==
  /\ probe.fn = "_apply_path_map"
  /\ probe.args.p = <<"/", "c", "/", "b">>
  /\ Len(probe.args.path_map) = 2
  /\ probe.args.path_map[1].src = probe.args.path_map[2].src
  /\ probe.outs = << <<"/", "h", "/", "a", "/", "b">> >>

\* --------------------------------------------------------------------- C19
\* C19: norm is idempotent: for every text and either value of
\* case_sensitive, norm of what norm returned is what norm returned.
C19_NormIdempotent ==
  (probe.fn = "norm" /\ Len(probe.outs) = 2) => probe.outs[2] = probe.outs[1]

\* --------------------------------------------------------------------- C20
\* C20: under title+author and title+series two items get the same key
\* exactly when their normalized titles are equal and their normalized
\* authors (respectively series) are equal.
C20_SameKeyIffSameFields ==
  (probe.fn = "make_key" /\ probe.outs # <<>>) =>
    \E x \in {probe.args} :
      LET cs == x.case_sensitive
          second(it) == IF x.by = "title+author" THEN author_for_group(it, cs)
                        ELSE series_for_group(it, cs)
      IN (probe.outs[1][1] = probe.outs[1][2])
           <=> /\ title_for_group(x.a, x.use_ignore_prefix, cs)
                    = title_for_group(x.b, x.use_ignore_prefix, cs)
               /\ second(x.a) = second(x.b)

\* --------------------------------------------------------------------- C21
\* C21: under every grouping policy, no member of a duplicate group has a
\* selected title that normalizes to the empty text.
C21_NoTitleNeverGrouped ==
  \A g \in 1..Len(dup_sets) :
    \A ms \in {MembersOf(g)} :
      \A k \in 1..Len(ms) :
        title_for_group(ms[k], opts.use_ignore_prefix, opts.case_sensitive) # <<>>

\* --------------------------------------------------------------------- C22
\* the tags the catalog held for the item when the run began
TagsAtStart(id) == ItemOfId(id).tags

\* C22: every update of every tag request names an item of a duplicate
\* group and carries a whole tag list: in the tagging phase the item's tags
\* followed by the marker (the item did not carry it), in the prune phase
\* the item's tags without the marker, in their order; and the tags other
\* than the marker the catalog holds for an item never change.
C22_TagUpdatesOnlyMoveMarker ==
  /\ \A i \in 1..Len(TagCalls) :
       \E c \in {TagCalls[i]} :
         \A k \in 1..Len(c.updates) :
           \E u \in {c.updates[k]} : \E old \in {TagsAtStart(u.id)} :
             /\ \E g \in 1..Len(dup_sets) : \E ms \in {MembersOf(g)} :
                  \E m \in 1..Len(ms) : ms[m].id = u.id
             /\ c.phase = "tag" =>
                  /\ ~InSeq(Marker, old)
                  /\ u.tags = Append(old, Marker)
             /\ c.phase = "prune" =>
                  u.tags = SelectSeq(old, LAMBDA t : t # Marker)
  /\ \A id \in ItemIds :
       SelectSeq(absTags[id], LAMBDA t : t # Marker)
         = SelectSeq(TagsAtStart(id), LAMBDA t : t # Marker)

\* an applying run ended after a tagging update that added the marker to an
\* item with another tag, and a reconciliation update that took the marker
\* out of the tags of a keeper and left it its other tags
C22_Witness ==
  /\ pc = "done" /\ opts.apply
  /\ \E i \in 1..Len(TagCalls) :
       /\ TagCalls[i].phase = "tag"
       /\ \E k \in 1..Len(TagCalls[i].updates) :
            \E u \in {TagCalls[i].updates[k]} :
              /\ InSeq("x", u.tags) /\ InSeq(Marker, u.tags)
              /\ ~InSeq(Marker, TagsAtStart(u.id))
  /\ \E i \in 1..Len(TagCalls) :
       /\ TagCalls[i].phase = "prune"
       /\ \E k \in 1..Len(TagCalls[i].updates) :
            \E u \in {TagCalls[i].updates[k]} :
              /\ u.tags = <<"x", "y">>
              /\ InSeq(Marker, TagsAtStart(u.id))
              /\ absTags[u.id] = <<"x", "y">>

\* --------------------------------------------------------------------- C23
\* the place of a request in the order of a run: the phase, the group, and
\* within the group file operations, then catalog deletions, then the tag
\* update of the keeper
CallRank(c) ==
  << IF c.phase = "tag" THEN 0 ELSE 1,
     IF c.phase = "tag" THEN 0 ELSE c.group,
     CASE c.op \in {"move", "remove"} -> 1
       [] c.op = "abs_delete" -> 2
       [] OTHER -> 3 >>

RankLeq(a, b) ==
  \/ a[1] < b[1]
  \/ a[1] = b[1] /\ a[2] < b[2]
  \/ a[1] = b[1] /\ a[2] = b[2] /\ a[3] <= b[3]

\* the requests of the run so far are in order, and only the group at hand
\* and the groups before it had any
CallsInOrder ==
  /\ \A i \in 1..(Len(calls) - 1) : RankLeq(CallRank(calls[i]), CallRank(calls[i + 1]))
  /\ \A i \in 1..Len(calls) :
       calls[i].phase = "prune" => (calls[i].group >= 1 /\ calls[i].group <= gi)

\* a step keeps the decision of every decided group, and the keeper and
\* the candidates of the group at hand
DecisionKept ==
  /\ gi' >= gi
  /\ \A g \in 1..Len(dup_sets) :
       dup_sets[g].entry.keep_format # <<>> =>
         /\ Len(dup_sets') >= g
         /\ dup_sets'[g].group = dup_sets[g].group
         /\ dup_sets'[g].entry.keep_format = dup_sets[g].entry.keep_format
         /\ dup_sets'[g].entry.to_delete_count = dup_sets[g].entry.to_delete_count
  /\ (pc \in {"files", "abs", "clean"}) =>
       /\ cur'.keeper = cur.keeper
       /\ cur'.to_remove = cur.to_remove
       /\ cur'.chosen_fmt = cur.chosen_fmt
       /\ pc' # "choose" => gi' = gi

\* C23: the batch update of the tagging phase comes before every request of
\* the prune phase; the requests of a group all come before those of the
\* next group; inside a group the file operations come before the catalog
\* deletions, and these before the tag update of the keeper; and once the
\* format, the keeper and the candidates of a group are decided no later
\* step changes them.
C23_StrictlySequential == []CallsInOrder /\ [][DecisionKept]_vars

\* an applying run ended that sent the tagging update, then for the first
\* group two file operations, two catalog deletions and the keeper's tag
\* update, then the same kinds of request for the second group
C23_Witness ==
  /\ pc = "done" /\ Len(dup_sets) = 2
  /\ [i \in 1..Len(calls) |-> CallRank(calls[i])]
       = << <<0, 0, 3>>,
            <<1, 1, 1>>, <<1, 1, 1>>, <<1, 1, 2>>, <<1, 1, 2>>, <<1, 1, 3>>,
            <<1, 2, 1>>, <<1, 2, 2>>, <<1, 2, 3>> >>

\* --------------------------------------------------------------------- C24
\* C24: a call of _move_to_trash on a folder that exists succeeds, leaves
\* every entry the trash held where it was, and puts the folder under a
\* name that did not exist before the call: the plain name, or the name
\* with a timestamp suffix when the plain name was taken, however many
\* moves of that name happen within one timestamp.
C24_TrashAppendOnly ==
  probe.fn = "_move_to_trash" =>
    \A k \in 1..Len(probe.outs) :
      \E r \in {probe.outs[k]} :
        /\ \A q \in r.before : IsUnder(q, probe.args.trash_root) => q \in r.after
        /\ Exists(r.before, r.src) =>
             /\ r.ok
             /\ ~Exists(r.before, r.dest)
             /\ Exists(r.after, r.dest)

\* --------------------------------------------------------------------- C25
\* C25: in both modes the format kept for a group is the dominant format of
\* one of its members at least, so that no group is passed over: every
\* group the prune loop has reached is decided and counted, and the keeper
\* of the group at hand is one of its members, of the format kept.
C25_ChosenFormatHasMembers ==
  /\ \A g \in 1..Len(dup_sets) :
       \E ms \in {MembersOf(g)} :
         /\ Decided(g) =>
              \E k \in 1..Len(ms) : dominant_format(ms[k]) = EntryOf(g).keep_format
         /\ (g < gi \/ pc \in {"files", "abs", "clean", "summary", "done"}) => Decided(g)
  /\ stats.prune_books = Cardinality({g \in 1..Len(dup_sets) : Decided(g)})
  /\ pc \in {"files", "abs", "clean"} =>
       /\ \E k \in 1..Len(MembersOf(gi)) : MembersOf(gi)[k] = cur.keeper
       /\ dominant_format(cur.keeper) = EntryOf(gi).keep_format

\* an interactive run in which the answer was "unknown", not the default,
\* and the keeper is the member of the group without audio files
C25_Witness ==
  /\ ~opts.assume_yes /\ pc = "clean"
  /\ EntryOf(gi).keep_format = Funknown
  /\ default_fmt(opts, MembersOf(gi)) # Funknown
  /\ cur.keeper.libraryFiles = <<>>
  /\ Len(cur.to_remove) = Len(MembersOf(gi)) - 1

\* --------------------------------------------------------------------- C26
\* C26: no move to the trash and no permanent delete done for a removal
\* candidate has for target the remapped folder of the keeper of the same
\* group, or a folder above it.
C26_KeeperFolderSpared ==
  \A i \in 1..Len(calls) :
    \E c \in {calls[i]} :
      (c.op \in {"move", "remove"} /\ Decided(c.group)) =>
        \E kf \in {MappedFolder(opts, KeeperOf(c.group))} :
          kf # <<>> => ~IsUnder(kf, c.path)

====
